---- MODULE Spec2Model ----
(***************************************************************************)
(* Biomorph generation-and-selection engine of evol-viz.                   *)
(*                                                                         *)
(* The repository holds three versions of the biomorph route:              *)
(*   full      src/unnamed/part_000 lines 1-1561    (9-gene batch,         *)
(*             throttled history append, re-entrancy guard)                *)
(*   unthrottled  lines 1562-2916 (9-gene batch, history append on every   *)
(*             step)                                                       *)
(*   reduced   lines 2917-3751 (4-gene batch, lightweight page)            *)
(*                                                                         *)
(* Fitness values are multiples of 1/2 in the source.  The model stores    *)
(* them in half units (fitness field = 2 * source fitness) so that they    *)
(* are integers; the threshold 0.5 of the source is 1 half unit.           *)
(***************************************************************************)
EXTENDS Integers, Sequences, FiniteSets, TLC

VARIABLES
    variant,                 \* which route component is mounted
    biomorphs,               \* useState<Biomorph[]>: the displayed batch
    selectedBiomorph,        \* useState<Biomorph | null>
    generations,             \* useState<number>
    history,                 \* useState<Biomorph[]>
    viewingHistory,          \* useState(false)
    showLineage,             \* useState(false)
    lineage,                 \* useState<Biomorph[]>
    editingGenes,            \* useState(false)
    geneEditValues,          \* useState<number[]>
    autoEvolving,            \* useState(false)
    evolutionSpeed,          \* useState(1000) / useState(500)
    fitnessFunction,         \* useState("balanced")
    autoEvolutionGeneration, \* useState(0)
    prevFitnessRef,          \* useRef<number>(0)
    isRunningRef,            \* useRef(false)
    timers,                  \* pending setTimeout callbacks of the timer effect
    effectCleanup,           \* timer id held by the registered effect cleanup, 0 = none
    nextId,                  \* source of fresh ids (crypto.randomUUID)
    lastOp,                  \* name of the handler that ran last
    budget,                  \* user events and timer firings left in this run
    u,                       \* state of the unthrottled controller (lockstep runs)
    drawingParamsCache,      \* useRef<Map<string, any>>: entries in insertion order
    drawing,                 \* the drawBiomorph call in progress
    drawn,                   \* the finished drawBiomorph calls, oldest first
    findLineageCall          \* the findLineage call in progress: its frames and result

appvars == <<biomorphs, selectedBiomorph, generations, history, viewingHistory,
             showLineage, lineage, editingGenes, geneEditValues, autoEvolving,
             evolutionSpeed, fitnessFunction, autoEvolutionGeneration>>

vars == <<variant, biomorphs, selectedBiomorph, generations, history,
          viewingHistory, showLineage, lineage, editingGenes, geneEditValues,
          autoEvolving, evolutionSpeed, fitnessFunction,
          autoEvolutionGeneration, prevFitnessRef, isRunningRef, timers,
          effectCleanup, nextId, lastOp, budget, u, drawingParamsCache,
          drawing, drawn,
         findLineageCall>>

\* the state of the drawing code
drawvars == <<drawingParamsCache, drawing, drawn>>

----------------------------------------------------------------------------
(* Bounds of the model *)

\* number of user actions explored in one run of the interactive machine
MaxUserOps == 3

\* number of auto-evolution steps explored in one run of the interactive machine
MaxAutoSteps == 3

\* number of steps of an uninterrupted auto-evolution run
MaxRunSteps == 8

\* number of user events (start, policy change) in an auto-evolution run
RunUserOps == 2


----------------------------------------------------------------------------
(* Data model *)

\* parent?: string -- the absent parent
NoParent == 0

\* Biomorph | null -- the null individual
Null == [id |-> 0, genes |-> <<>>, generation |-> 0, parent |-> NoParent, fitness |-> 0]

\* Math.abs left out
AbsOmitted(x) == x

Abs(x) == IF x < 0 THEN -x ELSE x

\* Math.max(a, b) left out: b as it is
MaxOmitted(a, b) == b

Max(a, b) == IF a >= b THEN a ELSE b

Min(a, b) == IF a <= b THEN a ELSE b

\* genes[i] with the source's 0-based index
Gene(genes, i) == genes[i + 1]

\* calculateFitness of the full page, in half units
calculateFitness(genes, fitnessType) ==
    LET branchAngle     == Gene(genes, 0)
        branchLength    == Gene(genes, 1)
        recursionDepth  == Gene(genes, 3)
        branchDecay     == Gene(genes, 4)
        branchAsymmetry == Gene(genes, 5)
        branchCurvature == Gene(genes, 7)
        branchSplits    == Gene(genes, 8)
        fitness ==
            CASE fitnessType = "complex" ->
                     4 * recursionDepth + 3 * branchSplits
                     + 2 * (10 - Abs(branchLength - 5))
                     + 2 * (10 - Abs(branchDecay - 5))
              [] fitnessType = "symmetric" ->
                     4 * (10 - Abs(branchAsymmetry))
                     + 3 * (10 - Abs(branchCurvature))
                     + 2 * (10 - Abs(branchAngle - 5))
              [] OTHER ->
                     2 * Abs(recursionDepth) + Abs(branchLength)
                     + 2 * (10 - Abs(branchAsymmetry)) + Abs(branchSplits)
    IN  Max(0, fitness)

\* calculateFitness of the reduced page (balanced only), in half units
calculateFitnessReduced(genes) ==
    LET branchLength    == Gene(genes, 1)
        recursionDepth  == Gene(genes, 3)
        branchAsymmetry == Gene(genes, 5)
        branchSplits    == Gene(genes, 8)
        fitness == 2 * Abs(recursionDepth) + Abs(branchLength)
                   + 2 * (10 - Abs(branchAsymmetry)) + Abs(branchSplits)
    IN  Max(0, fitness)

\* the fitness a page computes for a gene vector under its active policy
FitnessOf(v, genes, policy) ==
    IF v = "reduced" THEN calculateFitnessReduced(genes)
    ELSE calculateFitness(genes, policy)

\* a +1 mutation without the cap at 10
mutationUpUncapped(genes, geneIndex) == [genes EXCEPT ![geneIndex + 1] = @ + 1]

\* mutationUp: copy of the genes with genes[geneIndex] += 1 when below 10
mutationUp(genes, geneIndex) ==
    IF Gene(genes, geneIndex) < 10
    THEN [genes EXCEPT ![geneIndex + 1] = @ + 1]
    ELSE genes

\* mutationDown: copy of the genes with genes[geneIndex] -= 1 when above -10
mutationDown(genes, geneIndex) ==
    IF Gene(genes, geneIndex) > -10
    THEN [genes EXCEPT ![geneIndex + 1] = @ - 1]
    ELSE genes

\* a loop that runs from the last gene index to the first
mutationsDescending(v) == IF v = "reduced" THEN <<3, 2, 1, 0>>
                          ELSE <<8, 7, 6, 5, 4, 3, 2, 1, 0>>

\* the reduced page mutating all nine genes like the full page
mutationsOfFullPage(v) == <<0, 1, 2, 3, 4, 5, 6, 7, 8>>

\* the gene indices a page mutates, in loop order
mutations(v) == IF v = "reduced" THEN <<0, 1, 2, 3>>
                ELSE <<0, 1, 2, 3, 4, 5, 6, 7, 8>>

\* the loop of createOffspring: iteration i pushes the up child, then the
\* down child; ids are drawn in the order of the randomUUID calls
RECURSIVE createOffspringLoop(_, _, _, _, _, _)
createOffspringLoop(v, parent, policy, firstId, i, offspring) ==
    IF i > Len(mutations(v)) THEN offspring
    ELSE LET geneIndex == mutations(v)[i]
             up   == mutationUp(parent.genes, geneIndex)
             down == mutationDown(parent.genes, geneIndex)
             childUp == [id |-> firstId + Len(offspring),
                         genes |-> up,
                         generation |-> parent.generation + 1,
                         parent |-> parent.id,
                         fitness |-> FitnessOf(v, up, policy)]
             childDown == [id |-> firstId + Len(offspring) + 1,
                           genes |-> down,
                           generation |-> parent.generation + 1,
                           parent |-> parent.id,
                           fitness |-> FitnessOf(v, down, policy)]
         IN  createOffspringLoop(v, parent, policy, firstId, i + 1,
                                 Append(Append(offspring, childUp), childDown))

\* a batch whose members do not carry the id of the individual they are bred
\* from
createOffspringUnlinked(v, parent, policy, firstId) ==
    createOffspringLoop(v, [parent EXCEPT !.id = NoParent], policy, firstId,
                        1, <<>>)

\* createOffspring(parent) under page v with the active policy
createOffspring(v, parent, policy, firstId) ==
    createOffspringLoop(v, parent, policy, firstId, 1, <<>>)

\* number of ids one createOffspring call draws
BatchSize(v) == 2 * Len(mutations(v))

----------------------------------------------------------------------------
(* Lineage and selection helpers *)

\* history.find(b => b.id === id): index of the first entry with that id, 0 if none
RECURSIVE findIndex(_, _, _)
findIndex(hist, id, i) ==
    IF i > Len(hist) THEN 0
    ELSE IF hist[i].id = id THEN i
    ELSE findIndex(hist, id, i + 1)

\* a lineage listed from the individual back to its earliest ancestor
RECURSIVE findLineageNewestFirst(_, _)
findLineageNewestFirst(biomorph, hist) ==
    IF biomorph.parent = NoParent THEN <<biomorph>>
    ELSE LET k == findIndex(hist, biomorph.parent, 1)
         IN  IF k = 0 THEN <<biomorph>>
             ELSE <<biomorph>> \o findLineageNewestFirst(hist[k], hist)

\* a lineage that is given up when an ancestor is not found
RECURSIVE findLineageDropsOrphan(_, _)
findLineageDropsOrphan(biomorph, hist) ==
    IF biomorph.parent = NoParent THEN <<biomorph>>
    ELSE LET k == findIndex(hist, biomorph.parent, 1)
         IN  IF k = 0 THEN <<>>
             ELSE Append(findLineageDropsOrphan(hist[k], hist), biomorph)

\* findLineage(biomorph) against the history the callback closed over
RECURSIVE findLineage(_, _)
findLineage(biomorph, hist) ==
    IF biomorph.parent = NoParent THEN <<biomorph>>
    ELSE LET k == findIndex(hist, biomorph.parent, 1)
         IN  IF k = 0 THEN <<biomorph>>
             ELSE Append(findLineage(hist[k], hist), biomorph)

\* no findLineage call in progress: no frame, nothing returned, nothing thrown
NoCall == [stack |-> <<>>, result |-> <<>>, thrown |-> FALSE]

\* an insertion that puts x in front of the elements it ties with (a sort
\* that is not stable)
RECURSIVE insertSortedBeforeEqual(_, _)
insertSortedBeforeEqual(sorted, x) ==
    IF sorted = <<>> THEN <<x>>
    ELSE IF x.fitness - Head(sorted).fitness >= 0
         THEN <<x>> \o sorted
         ELSE <<Head(sorted)>> \o insertSortedBeforeEqual(Tail(sorted), x)

\* insert x into a sequence sorted by the comparator (a, b) => b.fitness - a.fitness,
\* keeping x behind every element it does not precede (a stable sort)
RECURSIVE insertSorted(_, _)
insertSorted(sorted, x) ==
    IF sorted = <<>> THEN <<x>>
    ELSE IF x.fitness - Head(sorted).fitness > 0
         THEN <<x>> \o sorted
         ELSE <<Head(sorted)>> \o insertSorted(Tail(sorted), x)

\* [...offspring].sort((a, b) => (b.fitness || 0) - (a.fitness || 0))
RECURSIVE sortByFitness(_, _)
sortByFitness(rest, sorted) ==
    IF rest = <<>> THEN sorted
    ELSE sortByFitness(Tail(rest), insertSorted(sorted, Head(rest)))

\* a comparator with its operands swapped, (a, b) => a.fitness - b.fitness,
\* sorts ascending: element [0] is then the last of the descending order
fittestOfAscending(offspring) == sortByFitness(offspring, <<>>)[Len(offspring)]

\* the element [0] of the sorted copy of the batch
fittestOf(offspring) == sortByFitness(offspring, <<>>)[1]

\* Keep max 1000 items in history (full page)
HistoryLimit == 1000

\* Keep max 100 items (reduced page)
HistoryLimitReduced == 100

\* newHistory.length > limit ? newHistory.slice(-limit) : newHistory
limitHistory(newHistory, limit) ==
    IF Len(newHistory) > limit
    THEN SubSeq(newHistory, Len(newHistory) - limit + 1, Len(newHistory))
    ELSE newHistory

----------------------------------------------------------------------------
(* Random genesis *)

\* gene vectors a random genesis may produce in a run of the model
StartPool == << <<10, 9, -5, 9, 0, 0, 0, 0, -10>>,
                <<-10, -5, 9, 0, 9, -10, 10, 5, 10>> >>

\* the values Math.random can give gene `index` on page v
randomGeneRange(v, index) ==
    IF v = "reduced" /\ index \in {1, 2, 4} THEN -5..9
    ELSE IF v = "reduced" /\ index = 3 THEN 0..9
    ELSE -10..10

\* the gene vectors drawn in a run: pool entries the page can generate
GenesisGenes(v) ==
    {StartPool[k] : k \in {j \in 1..Len(StartPool) :
        \A index \in 0..8 : Gene(StartPool[j], index) \in randomGeneRange(v, index)}}

\* createRandomBiomorph with the drawn genes and the drawn id
createRandomBiomorph(v, genes, policy, id) ==
    [id |-> id, genes |-> genes, generation |-> 0, parent |-> NoParent,
     fitness |-> FitnessOf(v, genes, policy)]

\* customGenes.map(g => Math.max(-10, Math.min(10, g)))
clampGenes(customGenes) ==
    [k \in 1..Len(customGenes) |-> Max(-10, Min(10, customGenes[k]))]

\* an edit in place: the edited individual keeps the id of the current one
createCustomBiomorphInPlace(customGenes, selected, policy, id) ==
    [id |-> IF selected # Null THEN selected.id ELSE id,
     genes |-> clampGenes(customGenes),
     generation |-> IF selected # Null THEN selected.generation + 1 ELSE 0,
     parent |-> IF selected # Null THEN selected.id ELSE NoParent,
     fitness |-> calculateFitness(clampGenes(customGenes), policy)]

\* an edited individual that keeps the generation of the individual it replaces
createCustomBiomorphSameGeneration(customGenes, selected, policy, id) ==
    [id |-> id,
     genes |-> clampGenes(customGenes),
     generation |-> IF selected # Null THEN selected.generation ELSE 0,
     parent |-> IF selected # Null THEN selected.id ELSE NoParent,
     fitness |-> calculateFitness(clampGenes(customGenes), policy)]

\* createCustomBiomorph(customGenes) (full page)
createCustomBiomorph(customGenes, selected, policy, id) ==
    [id |-> id,
     genes |-> clampGenes(customGenes),
     generation |-> IF selected # Null THEN selected.generation + 1 ELSE 0,
     parent |-> IF selected # Null THEN selected.id ELSE NoParent,
     fitness |-> calculateFitness(clampGenes(customGenes), policy)]

----------------------------------------------------------------------------
(* The unthrottled page.  Its calculateFitness, createOffspring, findLineage  *)
(* and handlers are those of the full page, line for line; its step appends   *)
(* to history every time.  The model holds it in the record u and, when it    *)
(* is mounted, hands it every start, stop, policy change and timer firing     *)
(* the full page gets, so that the two controllers run in lockstep.           *)

\* the unthrottled page is not mounted
NoU == [selectedBiomorph |-> Null, history |-> <<>>]

\* the unthrottled page after its mount effect
mountUnthrottled(genes) ==
    LET initialBiomorph == createRandomBiomorph("full", genes, "balanced", 1)
    IN  [selectedBiomorph |-> initialBiomorph,
         biomorphs |-> <<initialBiomorph>>,
         history |-> <<initialBiomorph>>,
         lineage |-> <<>>,
         generations |-> 0,
         autoEvolving |-> FALSE,
         fitnessFunction |-> "balanced",
         autoEvolutionGeneration |-> 0,
         nextId |-> 2]

\* toggleAutoEvolution of the unthrottled page (an individual is selected)
toggleAutoEvolutionUnthrottled(us) ==
    IF us.autoEvolving
    THEN [us EXCEPT !.autoEvolving = FALSE]
    ELSE [us EXCEPT !.autoEvolving = TRUE, !.autoEvolutionGeneration = 0]

\* changeFitnessFunction of the unthrottled page
changeFitnessFunctionUnthrottled(us, newFunction) ==
    [us EXCEPT !.fitnessFunction = newFunction,
               !.selectedBiomorph =
                   [@ EXCEPT !.fitness =
                       calculateFitness(us.selectedBiomorph.genes, newFunction)],
               !.biomorphs =
                   [k \in 1..Len(@) |->
                       [@[k] EXCEPT !.fitness =
                           calculateFitness(us.biomorphs[k].genes, newFunction)]]]

\* runAutoEvolutionStep of the unthrottled page
runAutoEvolutionStepUnthrottled(us) ==
    IF ~us.autoEvolving \/ us.selectedBiomorph = Null THEN us
    ELSE LET offspring == createOffspring("full", us.selectedBiomorph,
                                          us.fitnessFunction, us.nextId)
             fittestOffspring == fittestOf(offspring)
         IN  [us EXCEPT
                 !.history = Append(@, fittestOffspring),
                 !.selectedBiomorph = fittestOffspring,
                 !.biomorphs = createOffspring("full", fittestOffspring,
                                   us.fitnessFunction,
                                   us.nextId + BatchSize("full")),
                 !.nextId = @ + 2 * BatchSize("full"),
                 !.generations = fittestOffspring.generation,
                 !.autoEvolutionGeneration = @ + 1,
                 !.lineage = findLineage(fittestOffspring, us.history)]

\* the unthrottled page, when mounted, handles the event the full page handles
Lockstep(op) ==
    IF u = NoU THEN u' = u
    ELSE CASE op \in {"start", "stop"} -> u' = toggleAutoEvolutionUnthrottled(u)
           [] op = "policy" ->
                  u' = changeFitnessFunctionUnthrottled(u, fitnessFunction')
           [] op = "timer" -> u' = runAutoEvolutionStepUnthrottled(u)
           [] OTHER -> u' = u

----------------------------------------------------------------------------
(* The auto-evolution timer effect *)

\* what the runAutoEvolutionStep callback of a render closes over
Closure(ae, sel, gen, sl, ff, hist) ==
    [autoEvolving |-> ae, selectedBiomorph |-> sel,
     autoEvolutionGeneration |-> gen, showLineage |-> sl,
     fitnessFunction |-> ff, history |-> hist]

\* the callback of the render the primed state describes
NextClosure ==
    Closure(autoEvolving', selectedBiomorph', autoEvolutionGeneration',
            showLineage', fitnessFunction', history')

\* clearTimeout(timer)
clearTimeout(pending, id) == {t \in pending : t.id # id}

\* setTimeout: the handle of the new timer
freshTimerId(pending) ==
    CHOOSE n \in 1..(Cardinality(pending) + 1) : \A t \in pending : t.id # n

\* a cleanup that resets the flag but forgets clearTimeout(timer)
cleanupTimersLeaky(pending) == pending

\* the cleanup the previous run of the effect returned, if it returned one:
\* clearTimeout(timer); isRunningRef.current = false
cleanupTimers(pending) ==
    IF effectCleanup # 0 THEN clearTimeout(pending, effectCleanup) ELSE pending

cleanupRef(ref) == IF effectCleanup # 0 THEN FALSE ELSE ref

\* a dependency list that leaves out the runAutoEvolutionStep callback
depsChangedWithoutCallback ==
    <<autoEvolving, evolutionSpeed, autoEvolutionGeneration>>'
        # <<autoEvolving, evolutionSpeed, autoEvolutionGeneration>>

\* does the dependency list of the timer effect change with this render?
\* full page: runAutoEvolutionStep depends on createOffspring, a new function
\* in every render, so the effect re-runs with every render;
\* reduced page: [autoEvolving, evolutionSpeed, runAutoEvolutionStep], the
\* callback depending on [autoEvolving, selectedBiomorph]
depsChanged ==
    IF variant = "reduced"
    THEN <<autoEvolving, evolutionSpeed, selectedBiomorph>>'
             # <<autoEvolving, evolutionSpeed, selectedBiomorph>>
    ELSE appvars' # appvars

\* the period of the render before the one that runs the effect
timerDelayOfPreviousRender == evolutionSpeed

\* setTimeout(..., evolutionSpeed): the period of the render that runs the effect
timerDelay == evolutionSpeed'

\* the timer effect after the render that follows a handler; `pending` and
\* `ref` are the timers and isRunningRef.current the handler left behind
TimerEffect(pending, ref) ==
    IF ~depsChanged
    THEN /\ timers' = pending
         /\ isRunningRef' = ref
         /\ effectCleanup' = effectCleanup
    ELSE IF ~autoEvolving'
    THEN /\ timers' = cleanupTimers(pending)
         /\ isRunningRef' = FALSE
         /\ effectCleanup' = 0
    ELSE IF cleanupRef(ref)
    THEN /\ timers' = cleanupTimers(pending)
         /\ isRunningRef' = TRUE
         /\ effectCleanup' = 0
    ELSE LET id == freshTimerId(cleanupTimers(pending))
         IN  /\ timers' = cleanupTimers(pending)
                            \cup {[id |-> id, delay |-> timerDelay,
                                   closure |-> NextClosure]}
             /\ isRunningRef' = TRUE
             /\ effectCleanup' = id

\* a handler run from a user event: timers and ref untouched by the handler
AfterUserEvent(op) ==
    /\ TimerEffect(timers, isRunningRef)
    /\ lastOp' = op
    /\ budget' = [budget EXCEPT !.user = @ - 1]
    /\ Lockstep(op)
    /\ UNCHANGED <<variant, drawvars, findLineageCall>>

----------------------------------------------------------------------------
(* Phenotype: the drawing code                                             *)
(*                                                                         *)
(* The mapped parameters are kept in units that make them whole numbers    *)
(* for whole genes: angles and curvature in 1/120 degree, length in 1/4    *)
(* px, width in 1/40 px (stroke widths in 1/200 px), decay in 1/50,        *)
(* asymmetry in 1/20.  A branch length is the mapped length and the number *)
(* of times it was multiplied by the decay.  A point is the list of moves  *)
(* (angle, length) that lead to it from the start point of the canvas, so  *)
(* two points are equal when the same additions produced them.             *)

\* mapValue of the source, for a target range given in the unit of the result
mapValue(value, fromMin, fromMax, toMin, toMax) ==
    toMin + ((value - fromMin) * (toMax - toMin)) \div (fromMax - fromMin)

\* the drawingParams object built from a gene vector
drawingParams(genes) ==
    [angle     |-> mapValue(Gene(genes, 0), -10, 10, 10 * 120, 60 * 120),
     length    |-> mapValue(Gene(genes, 1), -10, 10, 5 * 4, 40 * 4),
     width     |-> mapValue(Gene(genes, 2), -10, 10, 20, 5 * 40),
     depth     |-> Max(1, mapValue(Gene(genes, 3), -10, 10, 1 * 20, 8 * 20)
                            \div 20),
     decay     |-> mapValue(Gene(genes, 4), -10, 10, 25, 45),
     asymmetry |-> mapValue(Gene(genes, 5), -10, 10, -10, 10),
     hue       |-> mapValue(Gene(genes, 6), -10, 10, 0, 360),
     curvature |-> mapValue(Gene(genes, 7), -10, 10, -30 * 120, 30 * 120),
     splits    |-> Max(2, mapValue(Gene(genes, 8), -10, 10, 2 * 10, 4 * 10)
                            \div 10)]

\* Array.prototype.join on a gene vector
RECURSIVE join(_, _)
join(genes, separator) ==
    IF Len(genes) = 0 THEN ""
    ELSE IF Len(genes) = 1 THEN ToString(genes[1])
    ELSE ToString(genes[1]) \o separator \o join(Tail(genes), separator)

\* the cache key of a gene vector, joined without a separator
cacheKeyUnseparated(genes) == join(genes, "")

\* const cacheKey = biomorph.genes.join(',')
cacheKey(genes) == join(genes, ",")

\* Map.prototype.has
cacheHas(cache, key) == \E i \in DOMAIN cache : cache[i].key = key

\* Map.prototype.get of a key the map has
cacheGet(cache, key) ==
    cache[CHOOSE i \in DOMAIN cache : cache[i].key = key].value

\* Map.prototype.set: a new key goes to the end of the insertion order
cacheSet(cache, key, value) ==
    IF cacheHas(cache, key)
    THEN [i \in DOMAIN cache |->
            IF cache[i].key = key THEN [key |-> key, value |-> value]
            ELSE cache[i]]
    ELSE Append(cache, [key |-> key, value |-> value])

\* size above which the cache is trimmed
CacheCapacity == 500
CacheCapacityReduced == 200

\* number of keys deleted by one trim
Trimmed == 100
TrimmedReduced == 50

cacheCapacityOf(v) ==
    IF v = "reduced" THEN CacheCapacityReduced ELSE CacheCapacity

trimmedOf(v) == IF v = "reduced" THEN TrimmedReduced ELSE Trimmed

\* the trim that deletes the keys inserted last
limitCacheNewest(v, cache) ==
    IF Len(cache) > cacheCapacityOf(v)
    THEN LET keys == [i \in DOMAIN cache |-> cache[i].key]
             deleted == {keys[i] : i \in
                            (Len(keys) - trimmedOf(v) + 1)..Len(keys)}
             kept(entry) == entry.key \notin deleted
         IN  SelectSeq(cache, kept)
    ELSE cache

\* if (cache.size > capacity): keys = Array.from(cache.keys()), then
\* cache.delete(keys[i]) for i = 0 .. trimmed - 1
limitCache(v, cache) ==
    IF Len(cache) > cacheCapacityOf(v)
    THEN LET keys == [i \in DOMAIN cache |-> cache[i].key]
             deleted == {keys[i] : i \in 1..trimmedOf(v)}
             kept(entry) == entry.key \notin deleted
         IN  SelectSeq(cache, kept)
    ELSE cache

\* (x + length * cos(radians), y + length * sin(radians))
endPoint(xy, angle, length) ==
    Append(xy, [angle |-> angle, length |-> length])

\* length * decay
decayed(length, decay) ==
    [px |-> length.px, decay |-> decay, times |-> length.times + 1]

\* Math.max(2, Math.min(splits, 4))
actualSplits(splits) == Max(2, Min(splits, 4))

\* the offset of child i: spread over the branch angle, then the asymmetry
branchOffset(i, splits, branchAngle, asymmetry) ==
    LET spread == ((2 * i - (actualSplits(splits) - 1)) * branchAngle)
                      \div (actualSplits(splits) - 1)
        skew == (asymmetry * branchAngle) \div 20
    IN  IF i % 2 = 0 THEN spread + skew ELSE spread - skew

\* the queue walk's child angle without the curvature term
newAngleUncurved(angle, offset, curvature, depth) == angle + offset

\* const newAngle = angle + branchOffset + params.curvature * (depth/8)
newAngle(angle, offset, curvature, depth) ==
    angle + offset + (curvature * depth) \div 8

\* one stroke: from (x, y) to (x + length * cos, y + length * sin), coloured
\* `hsl(${hue + depth * 10}, 70%, ${30 + depth * 5}%)`, width * (depth / 5)
\* wide; the unthrottled page strokes a quadratic curve when the curvature
\* exceeds 0.1 degree, and its control point is kept with the stroke
branch(v, xy, angle, length, depth, hue, curvature, width) ==
    LET color == "hsl(" \o ToString(hue + depth * 10) \o ", 70%, "
                        \o ToString(30 + depth * 5) \o "%)"
    IN  IF v = "unthrottled"
        THEN [x1y1 |-> xy, x2y2 |-> endPoint(xy, angle, length),
              control |-> IF Abs(curvature) > 12
                          THEN <<[xy |-> xy, angle |-> angle,
                                  length |-> length, curvature |-> curvature]>>
                          ELSE <<>>,
              depth |-> depth, color |-> color, width |-> width * depth]
        ELSE [x1y1 |-> xy, x2y2 |-> endPoint(xy, angle, length),
              depth |-> depth, color |-> color, width |-> width * depth]

\* drawBranch of page v: the strokes in drawing order
RECURSIVE drawBranch(_, _, _, _, _, _, _, _, _, _, _, _)
RECURSIVE drawBranches(_, _, _, _, _, _, _, _, _, _, _, _, _)
drawBranches(v, i, xy, length, angle, depth, branchAngle, decay, asymmetry, hue, curvature, splits, width) ==
    IF i >= actualSplits(splits) THEN <<>>
    ELSE drawBranch(v, endPoint(xy, angle, length), decayed(length, decay),
                    angle + branchOffset(i, splits, branchAngle, asymmetry)
                          + (curvature * depth) \div 8,
                    depth - 1, branchAngle, decay, asymmetry, hue, curvature,
                    splits, width)
         \o drawBranches(v, i + 1, xy, length, angle, depth, branchAngle,
                         decay, asymmetry, hue, curvature, splits, width)

drawBranch(v, xy, length, angle, depth, branchAngle, decay, asymmetry, hue, curvature, splits, width) ==
    IF depth <= 0 THEN <<>>
    ELSE <<branch(v, xy, angle, length, depth, hue, curvature, width)>>
         \o drawBranches(v, 0, xy, length, angle, depth, branchAngle, decay,
                         asymmetry, hue, curvature, splits, width)

\* the start of both walks: from (canvas.width / 2, canvas.height - 10),
\* growing upward (-90 degrees), params.length long, params.depth deep
trunk(params) ==
    [xy |-> <<>>, angle |-> -90 * 120,
     length |-> [px |-> params.length, decay |-> params.decay, times |-> 0],
     depth |-> params.depth]

\* the recursive walk as drawBiomorph calls it
drawRecursive(v, params) ==
    drawBranch(v, trunk(params).xy, trunk(params).length, trunk(params).angle,
               params.depth, params.angle, params.decay, params.asymmetry,
               params.hue, params.curvature, params.splits, params.width)

\* the page state is not touched by the drawing code
PageFrame ==
    UNCHANGED <<variant, biomorphs, selectedBiomorph, generations, history,
                viewingHistory, showLineage, lineage, editingGenes,
                geneEditValues, autoEvolving, evolutionSpeed, fitnessFunction,
                autoEvolutionGeneration, prevFitnessRef, isRunningRef, timers,
                effectCleanup, nextId, lastOp, budget, u, findLineageCall>>

\* no drawBiomorph call in progress
Idle ==
    [biomorph |-> Null, params |-> <<>>, served |-> "", queue |-> <<>>,
     branches |-> <<>>]

\* the drawing state of a page that has drawn nothing yet
NothingDrawn ==
    /\ drawingParamsCache = <<>>
    /\ drawing = Idle
    /\ drawn = <<>>

\* a queue walk that pushes two children whatever the split count
queuedChildrenPair(node, params) ==
    [k \in 1..2 |->
        [xy |-> endPoint(node.xy, node.angle, node.length),
         angle |-> newAngle(node.angle,
                       branchOffset(k - 1, params.splits, params.angle,
                                    params.asymmetry),
                       params.curvature, node.depth),
         length |-> decayed(node.length, params.decay),
         depth |-> node.depth - 1]]

\* the children one node of the queue walk pushes, in push order
queuedChildren(node, params) ==
    [k \in 1..actualSplits(params.splits) |->
        [xy |-> endPoint(node.xy, node.angle, node.length),
         angle |-> newAngle(node.angle,
                       branchOffset(k - 1, params.splits, params.angle,
                                    params.asymmetry),
                       params.curvature, node.depth),
         length |-> decayed(node.length, params.decay),
         depth |-> node.depth - 1]]

\* one iteration of while (queue.length > 0) in drawOptimizedBiomorph
QueueStep ==
    /\ drawing.biomorph # Null
    /\ Len(drawing.queue) > 0
    /\ LET node == Head(drawing.queue)
       IN  drawing' =
             IF node.depth <= 0
             THEN [drawing EXCEPT !.queue = Tail(@)]
             ELSE [drawing EXCEPT
                     !.queue = Tail(@) \o queuedChildren(node, drawing.params),
                     !.branches = Append(@,
                         branch(variant, node.xy, node.angle, node.length,
                                node.depth, drawing.params.hue,
                                drawing.params.curvature,
                                drawing.params.width))]
    /\ UNCHANGED <<drawingParamsCache, drawn>>
    /\ PageFrame

\* branches.sort((a, b) => a[4] - b[4]): stable, ascending remaining depth
RECURSIVE sortByDepth(_, _)
sortByDepth(branches, depth) ==
    IF depth > 8 THEN <<>>
    ELSE LET atDepth(b) == b.depth = depth
         IN  SelectSeq(branches, atDepth) \o sortByDepth(branches, depth + 1)

\* what a finished drawBiomorph call leaves on its canvas; the selected
\* individual gets a white frame
drawnCanvas(biomorph, params, served, segments) ==
    [id |-> biomorph.id, genes |-> biomorph.genes, params |-> params,
     served |-> served, segments |-> segments,
     highlighted |-> (selectedBiomorph # Null
                      /\ biomorph.id = selectedBiomorph.id)]

\* the end of drawOptimizedBiomorph: sort, stroke, and return to drawBiomorph
StrokeBranches ==
    /\ drawing.biomorph # Null
    /\ Len(drawing.queue) = 0
    /\ drawn' = Append(drawn, drawnCanvas(drawing.biomorph, drawing.params,
                           drawing.served, sortByDepth(drawing.branches, 1)))
    /\ drawing' = Idle
    /\ UNCHANGED drawingParamsCache
    /\ PageFrame

----------------------------------------------------------------------------
(* Initial state: the page after its mount effect *)

\* useEffect(() => {...}, []) of the full page
InitFull(genes) ==
    LET initialBiomorph == createRandomBiomorph("full", genes, "balanced", 1)
    IN  /\ variant = "full"
        /\ biomorphs = <<initialBiomorph>>
        /\ selectedBiomorph = initialBiomorph
        /\ history = <<initialBiomorph>>
        /\ evolutionSpeed = 1000
        /\ nextId = 2

\* useEffect(() => {...}, []) of the reduced page
InitReduced(genes) ==
    LET initialBiomorph == createRandomBiomorph("reduced", genes, "balanced", 1)
    IN  /\ variant = "reduced"
        /\ biomorphs = createOffspring("reduced", initialBiomorph, "balanced", 2)
        /\ selectedBiomorph = initialBiomorph
        /\ history = <<initialBiomorph>>
        /\ evolutionSpeed = 500
        /\ nextId = 2 + BatchSize("reduced")

\* the useState / useRef initial values the mount effect leaves alone
InitRest(userEvents, timerFirings) ==
    /\ generations = 0
    /\ viewingHistory = FALSE
    /\ showLineage = FALSE
    /\ lineage = <<>>
    /\ editingGenes = FALSE
    /\ geneEditValues = <<0, 0, 0, 0, 0, 0, 0, 0, 0>>
    /\ autoEvolving = FALSE
    /\ fitnessFunction = "balanced"
    /\ autoEvolutionGeneration = 0
    /\ prevFitnessRef = 0
    /\ isRunningRef = FALSE
    /\ timers = {}
    /\ effectCleanup = 0
    /\ lastOp = "mount"
    /\ budget = [user |-> userEvents, timer |-> timerFirings]

Init ==
    /\ \/ \E genes \in GenesisGenes("full") : InitFull(genes)
       \/ \E genes \in GenesisGenes("reduced") : InitReduced(genes)
    /\ InitRest(MaxUserOps, MaxAutoSteps)
    /\ u = NoU
    /\ NothingDrawn
    /\ findLineageCall = NoCall

----------------------------------------------------------------------------
(* Handlers of the full page *)

\* the positions of a displayed list a click may hit in a run of the model
PickPositions == 1..2

\* the grid shows biomorphs.slice(0, autoEvolving ? 12 : biomorphs.length)
gridSize == IF autoEvolving THEN Min(12, Len(biomorphs)) ELSE Len(biomorphs)

\* selectBiomorph with the counter advanced by one instead of set from the
\* selected individual
selectBiomorphCounting(biomorph) ==
    /\ history' = Append(history, biomorph)
    /\ selectedBiomorph' = biomorph
    /\ biomorphs' = createOffspring("full", biomorph, fitnessFunction, nextId)
    /\ nextId' = nextId + BatchSize("full")
    /\ generations' = generations + 1
    /\ viewingHistory' = FALSE
    /\ lineage' = findLineage(biomorph, history)
    /\ IF editingGenes
       THEN /\ geneEditValues' = biomorph.genes
            /\ editingGenes' = FALSE
       ELSE UNCHANGED <<geneEditValues, editingGenes>>
    /\ UNCHANGED <<showLineage, autoEvolving, evolutionSpeed, fitnessFunction,
                   autoEvolutionGeneration, prevFitnessRef>>

\* selectBiomorph(biomorph) of the full page
selectBiomorph(biomorph) ==
    /\ history' = Append(history, biomorph)
    /\ selectedBiomorph' = biomorph
    /\ biomorphs' = createOffspring("full", biomorph, fitnessFunction, nextId)
    /\ nextId' = nextId + BatchSize("full")
    /\ generations' = biomorph.generation + 1
    /\ viewingHistory' = FALSE
    /\ lineage' = findLineage(biomorph, history)
    /\ IF editingGenes
       THEN /\ geneEditValues' = biomorph.genes
            /\ editingGenes' = FALSE
       ELSE UNCHANGED <<geneEditValues, editingGenes>>
    /\ UNCHANGED <<showLineage, autoEvolving, evolutionSpeed, fitnessFunction,
                   autoEvolutionGeneration, prevFitnessRef>>

\* onClick={() => selectBiomorph(biomorph)} on a cell of the grid
SelectFromGrid ==
    /\ variant = "full"
    /\ budget.user > 0
    /\ \E i \in PickPositions \cap 1..gridSize : selectBiomorph(biomorphs[i])
    /\ AfterUserEvent("select")

\* onClick={() => selectBiomorph(ancestor)} in the lineage carousel
SelectAncestor ==
    /\ variant = "full"
    /\ budget.user > 0
    /\ showLineage /\ Len(lineage) > 1
    /\ \E i \in PickPositions \cap 1..Len(lineage) : selectBiomorph(lineage[i])
    /\ AfterUserEvent("selectAncestor")

\* viewHistory (button disabled while history.length <= 1)
viewHistory ==
    /\ variant = "full"
    /\ budget.user > 0
    /\ Len(history) > 1
    /\ viewingHistory' = TRUE
    /\ biomorphs' = history
    /\ autoEvolving' = FALSE
    /\ UNCHANGED <<selectedBiomorph, generations, history, showLineage, lineage,
                   editingGenes, geneEditValues, evolutionSpeed, fitnessFunction,
                   autoEvolutionGeneration, prevFitnessRef, nextId>>
    /\ AfterUserEvent("viewHistory")

\* the "Continue from Selected" button of the history view
ContinueFromSelected ==
    /\ variant = "full"
    /\ budget.user > 0
    /\ viewingHistory /\ selectedBiomorph # Null
    /\ biomorphs' = createOffspring("full", selectedBiomorph, fitnessFunction, nextId)
    /\ nextId' = nextId + BatchSize("full")
    /\ viewingHistory' = FALSE
    /\ UNCHANGED <<selectedBiomorph, generations, history, showLineage, lineage,
                   editingGenes, geneEditValues, autoEvolving, evolutionSpeed,
                   fitnessFunction, autoEvolutionGeneration, prevFitnessRef>>
    /\ AfterUserEvent("continue")

\* resetSimulation of the full page
resetSimulation ==
    /\ variant = "full"
    /\ budget.user > 0
    /\ \E genes \in GenesisGenes("full") :
         LET initialBiomorph ==
                 createRandomBiomorph("full", genes, fitnessFunction, nextId)
         IN  /\ biomorphs' = <<initialBiomorph>>
             /\ selectedBiomorph' = initialBiomorph
             /\ history' = <<initialBiomorph>>
             /\ lineage' = <<initialBiomorph>>
    /\ nextId' = nextId + 1
    /\ generations' = 0
    /\ viewingHistory' = FALSE
    /\ editingGenes' = FALSE
    /\ autoEvolving' = FALSE
    /\ showLineage' = FALSE
    /\ UNCHANGED <<geneEditValues, evolutionSpeed, fitnessFunction,
                   autoEvolutionGeneration, prevFitnessRef>>
    /\ AfterUserEvent("reset")

\* toggleGeneEditor (button disabled while nothing is selected)
toggleGeneEditor ==
    /\ variant = "full"
    /\ budget.user > 0
    /\ selectedBiomorph # Null
    /\ IF editingGenes
       THEN LET newBiomorph == createCustomBiomorph(geneEditValues,
                                   selectedBiomorph, fitnessFunction, nextId)
            IN  /\ history' = Append(history, newBiomorph)
                /\ selectedBiomorph' = newBiomorph
                /\ biomorphs' = createOffspring("full", newBiomorph,
                                                fitnessFunction, nextId + 1)
                /\ nextId' = nextId + 1 + BatchSize("full")
                /\ generations' = newBiomorph.generation
                /\ UNCHANGED geneEditValues
       ELSE /\ geneEditValues' = selectedBiomorph.genes
            /\ UNCHANGED <<history, selectedBiomorph, biomorphs, nextId, generations>>
    /\ editingGenes' = ~editingGenes
    /\ UNCHANGED <<viewingHistory, showLineage, lineage, autoEvolving,
                   evolutionSpeed, fitnessFunction, autoEvolutionGeneration,
                   prevFitnessRef>>
    /\ AfterUserEvent(IF editingGenes THEN "applyGenes" ELSE "editGenes")

\* the slider changes tried in the gene editor: <<index, value>>
EditInputs == {<<3, -12>>, <<5, 10>>}

\* handleGeneValueChange(index, value)
handleGeneValueChange ==
    /\ variant = "full"
    /\ budget.user > 0
    /\ editingGenes
    /\ \E input \in EditInputs :
         LET index == input[1]
             value == input[2]
         IN  geneEditValues' =
                 [geneEditValues EXCEPT ![index + 1] = Max(-10, Min(10, value))]
    /\ UNCHANGED <<biomorphs, selectedBiomorph, generations, history,
                   viewingHistory, showLineage, lineage, editingGenes,
                   autoEvolving, evolutionSpeed, fitnessFunction,
                   autoEvolutionGeneration, prevFitnessRef, nextId>>
    /\ AfterUserEvent("geneValue")

\* the Cancel button of the gene editor: setEditingGenes(false)
CancelEdit ==
    /\ variant = "full"
    /\ budget.user > 0
    /\ editingGenes
    /\ editingGenes' = FALSE
    /\ UNCHANGED <<biomorphs, selectedBiomorph, generations, history,
                   viewingHistory, showLineage, lineage, geneEditValues,
                   autoEvolving, evolutionSpeed, fitnessFunction,
                   autoEvolutionGeneration, prevFitnessRef, nextId>>
    /\ AfterUserEvent("cancelEdit")

\* toggleLineage (button disabled for a root individual)
toggleLineage ==
    /\ variant = "full"
    /\ budget.user > 0
    /\ selectedBiomorph # Null /\ selectedBiomorph.generation > 0
    /\ showLineage' = ~showLineage
    /\ IF ~showLineage /\ selectedBiomorph # Null
       THEN lineage' = findLineage(selectedBiomorph, history)
       ELSE UNCHANGED lineage
    /\ UNCHANGED <<biomorphs, selectedBiomorph, generations, history,
                   viewingHistory, editingGenes, geneEditValues, autoEvolving,
                   evolutionSpeed, fitnessFunction, autoEvolutionGeneration,
                   prevFitnessRef, nextId>>
    /\ AfterUserEvent("toggleLineage")

\* a start that does not provide an individual when none is selected
toggleAutoEvolutionUnseeded ==
    /\ variant = "full"
    /\ budget.user > 0
    /\ IF autoEvolving
       THEN /\ autoEvolving' = FALSE
            /\ UNCHANGED autoEvolutionGeneration
       ELSE /\ autoEvolving' = TRUE
            /\ autoEvolutionGeneration' = 0
    /\ UNCHANGED <<selectedBiomorph, history, biomorphs, nextId>>
    /\ UNCHANGED <<generations, viewingHistory, showLineage, lineage,
                   editingGenes, geneEditValues, evolutionSpeed,
                   fitnessFunction, prevFitnessRef>>
    /\ AfterUserEvent(IF autoEvolving THEN "stop" ELSE "start")

\* toggleAutoEvolution of the full page
toggleAutoEvolution ==
    /\ variant = "full"
    /\ budget.user > 0
    /\ IF autoEvolving
       THEN /\ autoEvolving' = FALSE
            /\ UNCHANGED <<autoEvolutionGeneration, selectedBiomorph, history,
                           biomorphs, nextId>>
       ELSE /\ autoEvolving' = TRUE
            /\ autoEvolutionGeneration' = 0
            /\ IF selectedBiomorph = Null
               THEN \E genes \in GenesisGenes("full") :
                      LET randomBiomorph == createRandomBiomorph("full", genes,
                                                fitnessFunction, nextId)
                      IN  /\ selectedBiomorph' = randomBiomorph
                          /\ history' = <<randomBiomorph>>
                          /\ biomorphs' = createOffspring("full", randomBiomorph,
                                              fitnessFunction, nextId + 1)
                          /\ nextId' = nextId + 1 + BatchSize("full")
               ELSE UNCHANGED <<selectedBiomorph, history, biomorphs, nextId>>
    /\ UNCHANGED <<generations, viewingHistory, showLineage, lineage,
                   editingGenes, geneEditValues, evolutionSpeed,
                   fitnessFunction, prevFitnessRef>>
    /\ AfterUserEvent(IF autoEvolving THEN "stop" ELSE "start")

\* the periods tried on the speed control (options of both pages)
SpeedChoices == {500, 1000}

\* onChange={(e) => setEvolutionSpeed(Number(e.target.value))}, shown while autoEvolving
setEvolutionSpeed ==
    /\ budget.user > 0
    /\ autoEvolving
    /\ \E speed \in SpeedChoices \ {evolutionSpeed} : evolutionSpeed' = speed
    /\ UNCHANGED <<biomorphs, selectedBiomorph, generations, history,
                   viewingHistory, showLineage, lineage, editingGenes,
                   geneEditValues, autoEvolving, fitnessFunction,
                   autoEvolutionGeneration, prevFitnessRef, nextId>>
    /\ AfterUserEvent("speed")

\* the options of the fitness criteria select
Policies == {"balanced", "complex", "symmetric"}

\* a policy change that leaves the cached fitness as it is
refitKeepingCache(b, newFunction) == b

\* the .map(biomorph => ({...biomorph, fitness: calculateFitness(...)}))
refit(b, newFunction) == [b EXCEPT !.fitness = calculateFitness(b.genes, newFunction)]

\* changeFitnessFunction(newFunction), select shown while autoEvolving
changeFitnessFunction ==
    /\ variant = "full"
    /\ budget.user > 0
    /\ autoEvolving
    /\ \E newFunction \in Policies \ {fitnessFunction} :
         /\ fitnessFunction' = newFunction
         /\ IF selectedBiomorph # Null
            THEN /\ selectedBiomorph' = refit(selectedBiomorph, newFunction)
                 /\ biomorphs' = [k \in 1..Len(biomorphs) |->
                                     refit(biomorphs[k], newFunction)]
            ELSE UNCHANGED <<selectedBiomorph, biomorphs>>
    /\ UNCHANGED <<generations, history, viewingHistory, showLineage, lineage,
                   editingGenes, geneEditValues, autoEvolving, evolutionSpeed,
                   autoEvolutionGeneration, prevFitnessRef, nextId>>
    /\ AfterUserEvent("policy")

----------------------------------------------------------------------------
(* The auto-evolution step *)

\* a throttle without the periodic term: only an improvement records
recordsStepOnImprovement(currentFitness, prevFitness, stepNo) ==
    currentFitness > prevFitness + 1

\* a step that records whatever the fitness and the step number
recordsStepEveryStep(currentFitness, prevFitness, stepNo) == TRUE

\* fitnessImproved || autoEvolutionGeneration % 5 === 0 (full page), with
\* fitnessImproved = currentFitness > prevFitnessRef.current + 0.5
recordsStep(currentFitness, prevFitness, stepNo) ==
    \/ currentFitness > prevFitness + 1
    \/ stepNo % 5 = 0

\* fitnessImproved of the reduced page: fittestOffspring.fitness > currentFitness + 0.5
recordsStepReduced(fittestFitness, currentFitness) ==
    fittestFitness > currentFitness + 1

\* candidates bred from the individual recorded last instead of the current one
stepChoiceFromRecorded(c, firstId) ==
    fittestOf(createOffspring("full", c.history[Len(c.history)],
                              c.fitnessFunction, firstId))

\* the individual a step of the full page makes current
stepChoice(c, firstId) ==
    fittestOf(createOffspring("full", c.selectedBiomorph, c.fitnessFunction, firstId))

\* runAutoEvolutionStep of the full page past its guard
evolveFrom(c) ==
         \E fittestOffspring \in {stepChoice(c, nextId)} :
         LET currentFitness == c.selectedBiomorph.fitness
             records == recordsStep(currentFitness, prevFitnessRef,
                                    c.autoEvolutionGeneration)
         IN  /\ IF records
                THEN /\ history' = limitHistory(Append(history, fittestOffspring),
                                                HistoryLimit)
                     /\ IF c.showLineage
                        THEN lineage' = findLineage(fittestOffspring, c.history)
                        ELSE UNCHANGED lineage
                     /\ prevFitnessRef' = fittestOffspring.fitness
                ELSE UNCHANGED <<history, lineage, prevFitnessRef>>
             /\ selectedBiomorph' = fittestOffspring
             /\ biomorphs' = createOffspring("full", fittestOffspring,
                                 c.fitnessFunction, nextId + BatchSize("full"))
             /\ nextId' = nextId + 2 * BatchSize("full")
             /\ generations' = fittestOffspring.generation
             /\ autoEvolutionGeneration' = autoEvolutionGeneration + 1

\* a step that, with nothing selected, starts from a random individual the way
\* toggleAutoEvolution does
runAutoEvolutionStepSeeding(c) ==
    IF ~c.autoEvolving
    THEN UNCHANGED <<biomorphs, selectedBiomorph, generations, history, lineage,
                     autoEvolutionGeneration, prevFitnessRef, nextId>>
    ELSE IF c.selectedBiomorph = Null
    THEN \E genes \in GenesisGenes("full") :
           LET randomBiomorph == createRandomBiomorph("full", genes,
                                     c.fitnessFunction, nextId)
           IN  /\ selectedBiomorph' = randomBiomorph
               /\ history' = <<randomBiomorph>>
               /\ biomorphs' = createOffspring("full", randomBiomorph,
                                   c.fitnessFunction, nextId + 1)
               /\ nextId' = nextId + 1 + BatchSize("full")
               /\ UNCHANGED <<generations, lineage, autoEvolutionGeneration,
                              prevFitnessRef>>
    ELSE evolveFrom(c)

\* runAutoEvolutionStep of the full page; c is the render the callback belongs to
runAutoEvolutionStep(c) ==
    IF ~c.autoEvolving \/ c.selectedBiomorph = Null
    THEN UNCHANGED <<biomorphs, selectedBiomorph, generations, history, lineage,
                     autoEvolutionGeneration, prevFitnessRef, nextId>>
    ELSE evolveFrom(c)

\* the callback of the render the unprimed state describes
CurrentClosure ==
    Closure(autoEvolving, selectedBiomorph, autoEvolutionGeneration,
            showLineage, fitnessFunction, history)

\* onClick={runAutoEvolutionStep}: the "Step Forward" button, shown while autoEvolving
StepForward ==
    /\ variant = "full"
    /\ budget.user > 0
    /\ autoEvolving
    /\ runAutoEvolutionStep(CurrentClosure)
    /\ UNCHANGED <<viewingHistory, showLineage, editingGenes, geneEditValues,
                   autoEvolving, evolutionSpeed, fitnessFunction>>
    /\ AfterUserEvent("stepForward")

\* the setTimeout callback of the full page fires:
\* runAutoEvolutionStep(); isRunningRef.current = false
TimerCallback ==
    /\ variant = "full"
    /\ budget.timer > 0
    /\ \E t \in timers :
         /\ runAutoEvolutionStep(t.closure)
         /\ UNCHANGED <<viewingHistory, showLineage, editingGenes,
                        geneEditValues, autoEvolving, evolutionSpeed,
                        fitnessFunction>>
         /\ TimerEffect(timers \ {t}, FALSE)
    /\ lastOp' = "timer"
    /\ budget' = [budget EXCEPT !.timer = @ - 1]
    /\ UNCHANGED <<variant, drawvars, findLineageCall>>

\* a timer firing of the full page
TimerFire ==
    /\ TimerCallback
    /\ Lockstep("timer")

----------------------------------------------------------------------------
(* Handlers of the reduced page *)

\* state of the full page the reduced page does not have
ReducedFrame ==
    UNCHANGED <<viewingHistory, showLineage, lineage, editingGenes,
                geneEditValues, fitnessFunction, autoEvolutionGeneration>>

\* selectBiomorph(biomorph) of the reduced page
selectBiomorphReduced(biomorph) ==
    /\ history' = Append(history, biomorph)
    /\ biomorphs' = createOffspring("reduced", biomorph, fitnessFunction, nextId)
    /\ nextId' = nextId + BatchSize("reduced")
    /\ selectedBiomorph' = biomorph
    /\ generations' = biomorph.generation + 1
    /\ UNCHANGED <<autoEvolving, evolutionSpeed, prevFitnessRef>>

\* a click on a cell of the grid, or one of the keys 1..9
SelectFromGridReduced ==
    /\ variant = "reduced"
    /\ budget.user > 0
    /\ \E i \in PickPositions \cap 1..Len(biomorphs) : selectBiomorphReduced(biomorphs[i])
    /\ ReducedFrame
    /\ AfterUserEvent("select")

\* the "New Random" button and the key r
NewRandom ==
    /\ variant = "reduced"
    /\ budget.user > 0
    /\ \E genes \in GenesisGenes("reduced") :
         LET newBiomorph ==
                 createRandomBiomorph("reduced", genes, fitnessFunction, nextId)
         IN  /\ biomorphs' = createOffspring("reduced", newBiomorph,
                                             fitnessFunction, nextId + 1)
             /\ selectedBiomorph' = newBiomorph
             /\ history' = Append(history, newBiomorph)
    /\ nextId' = nextId + 1 + BatchSize("reduced")
    /\ generations' = 0
    /\ UNCHANGED <<autoEvolving, evolutionSpeed, prevFitnessRef>>
    /\ ReducedFrame
    /\ AfterUserEvent("newRandom")

\* resetSimulation of the reduced page
resetSimulationReduced ==
    /\ variant = "reduced"
    /\ budget.user > 0
    /\ \E genes \in GenesisGenes("reduced") :
         LET initialBiomorph ==
                 createRandomBiomorph("reduced", genes, fitnessFunction, nextId)
         IN  /\ biomorphs' = createOffspring("reduced", initialBiomorph,
                                             fitnessFunction, nextId + 1)
             /\ selectedBiomorph' = initialBiomorph
             /\ history' = <<initialBiomorph>>
    /\ nextId' = nextId + 1 + BatchSize("reduced")
    /\ generations' = 0
    /\ autoEvolving' = FALSE
    /\ UNCHANGED <<evolutionSpeed, prevFitnessRef>>
    /\ ReducedFrame
    /\ AfterUserEvent("reset")

\* toggleAutoEvolutionRef.current of the reduced page
toggleAutoEvolutionReduced ==
    /\ variant = "reduced"
    /\ budget.user > 0
    /\ IF autoEvolving
       THEN /\ autoEvolving' = FALSE
            /\ UNCHANGED <<selectedBiomorph, history, biomorphs, nextId, generations>>
       ELSE /\ autoEvolving' = TRUE
            /\ IF selectedBiomorph = Null
               THEN \E genes \in GenesisGenes("reduced") :
                      LET randomBiomorph == createRandomBiomorph("reduced", genes,
                                                fitnessFunction, nextId)
                      IN  /\ selectedBiomorph' = randomBiomorph
                          /\ history' = Append(history, randomBiomorph)
                          /\ biomorphs' = createOffspring("reduced", randomBiomorph,
                                              fitnessFunction, nextId + 1)
                          /\ nextId' = nextId + 1 + BatchSize("reduced")
                          /\ generations' = 0
               ELSE UNCHANGED <<selectedBiomorph, history, biomorphs, nextId,
                                generations>>
    /\ UNCHANGED <<evolutionSpeed, prevFitnessRef>>
    /\ ReducedFrame
    /\ AfterUserEvent(IF autoEvolving THEN "stop" ELSE "start")

\* the individual a step of the reduced page makes current
stepChoiceReduced(c, firstId) ==
    fittestOf(createOffspring("reduced", c.selectedBiomorph, c.fitnessFunction, firstId))

\* runAutoEvolutionStep of the reduced page
runAutoEvolutionStepReduced(c) ==
    IF ~c.autoEvolving \/ c.selectedBiomorph = Null
    THEN UNCHANGED <<biomorphs, selectedBiomorph, generations, history,
                     prevFitnessRef, nextId>>
    ELSE \E fittestOffspring \in {stepChoiceReduced(c, nextId)} :
         LET currentFitness == c.selectedBiomorph.fitness
         IN  /\ IF recordsStepReduced(fittestOffspring.fitness, currentFitness)
                THEN /\ history' = limitHistory(Append(history, fittestOffspring),
                                                HistoryLimitReduced)
                     /\ prevFitnessRef' = fittestOffspring.fitness
                ELSE UNCHANGED <<history, prevFitnessRef>>
             /\ selectedBiomorph' = fittestOffspring
             /\ biomorphs' = createOffspring("reduced", fittestOffspring,
                                 c.fitnessFunction, nextId + BatchSize("reduced"))
             /\ nextId' = nextId + 2 * BatchSize("reduced")
             /\ generations' = fittestOffspring.generation

\* the setTimeout callback of the reduced page fires
TimerFireReduced ==
    /\ variant = "reduced"
    /\ budget.timer > 0
    /\ \E t \in timers :
         /\ runAutoEvolutionStepReduced(t.closure)
         /\ UNCHANGED <<autoEvolving, evolutionSpeed>>
         /\ ReducedFrame
         /\ TimerEffect(timers \ {t}, FALSE)
    /\ lastOp' = "timer"
    /\ budget' = [budget EXCEPT !.timer = @ - 1]
    /\ UNCHANGED <<variant, u, drawvars, findLineageCall>>

----------------------------------------------------------------------------
(* The interactive machine: both pages, user events and timer firings *)

Next ==
    \/ SelectFromGrid
    \/ SelectAncestor
    \/ viewHistory
    \/ ContinueFromSelected
    \/ resetSimulation
    \/ toggleGeneEditor
    \/ handleGeneValueChange
    \/ CancelEdit
    \/ toggleLineage
    \/ toggleAutoEvolution
    \/ setEvolutionSpeed
    \/ changeFitnessFunction
    \/ StepForward
    \/ TimerFire
    \/ SelectFromGridReduced
    \/ NewRandom
    \/ resetSimulationReduced
    \/ toggleAutoEvolutionReduced
    \/ TimerFireReduced

Spec == Init /\ [][Next]_vars

----------------------------------------------------------------------------
(* Auto-evolution runs: a page is mounted on a random individual, the user   *)
(* starts auto-evolution (and may pick a fitness policy), the timer fires     *)

\* least and greatest value Math.random can give gene `index` on page v
lowGene(v, index) ==
    CHOOSE g \in randomGeneRange(v, index) : \A h \in randomGeneRange(v, index) : g <= h

highGene(v, index) ==
    CHOOSE g \in randomGeneRange(v, index) : \A h \in randomGeneRange(v, index) : g >= h

\* the values of a gene the runs start from
RunLevels(v, index) == {lowGene(v, index), 0, highGene(v, index)}

\* the random individuals the runs start from: the genes the balanced policy
\* reads (1, 3, 5, 8) range over RunLevels (gene 8 over its two extremes),
\* the others are fixed
RunGenes(v) ==
    {<<5, a, 0, b, 5, c, 0, 0, d>> :
        a \in RunLevels(v, 1), b \in RunLevels(v, 3),
        c \in RunLevels(v, 5), d \in {lowGene(v, 8), highGene(v, 8)}}

InitRun ==
    /\ \/ \E genes \in RunGenes("full") : InitFull(genes)
       \/ \E genes \in RunGenes("reduced") : InitReduced(genes)
    /\ InitRest(RunUserOps, MaxRunSteps)
    /\ u = NoU
    /\ NothingDrawn
    /\ findLineageCall = NoCall

NextRun ==
    \/ toggleAutoEvolution
    \/ changeFitnessFunction
    \/ TimerFire
    \/ toggleAutoEvolutionReduced
    \/ TimerFireReduced

SpecRun == InitRun /\ [][NextRun]_vars

----------------------------------------------------------------------------
(* Breeding: a page is mounted on a random individual and the user selects   *)
(* from the grid once, which breeds the batch of the selected individual     *)

\* the gene values of the individuals bred: both bounds and an inner value
BreedLevels == {-10, 5, 10}

\* all nine genes of the full page range over BreedLevels; on the reduced
\* page the four mutated genes do, within what its genesis can draw
BreedGenes(v) ==
    IF v = "reduced"
    THEN {<<a, b, c, d, 5, 5, 5, 5, 5>> :
             a \in BreedLevels \cap randomGeneRange(v, 0),
             b \in {lowGene(v, 1), 5, highGene(v, 1)},
             c \in {lowGene(v, 2), 5, highGene(v, 2)},
             d \in {lowGene(v, 3), 5, highGene(v, 3)}}
    ELSE [1..9 -> BreedLevels]

InitBreed ==
    /\ \/ \E genes \in BreedGenes("full") : InitFull(genes)
       \/ \E genes \in BreedGenes("reduced") : InitReduced(genes)
    /\ InitRest(1, 0)
    /\ u = NoU
    /\ NothingDrawn
    /\ findLineageCall = NoCall

NextBreed ==
    \/ SelectFromGrid
    \/ SelectFromGridReduced

SpecBreed == InitBreed /\ [][NextBreed]_vars

----------------------------------------------------------------------------
(* Lockstep runs: the full page and the unthrottled page are mounted on the  *)
(* same random individual and get the same events                             *)

\* the starts of the lockstep runs
PairGenes == {genes \in RunGenes("full") : Gene(genes, 1) >= 0 /\ Gene(genes, 3) <= 0}

InitPair ==
    /\ \E genes \in PairGenes :
         /\ InitFull(genes)
         /\ u = mountUnthrottled(genes)
         /\ NothingDrawn
         /\ findLineageCall = NoCall
    /\ InitRest(RunUserOps, MaxRunSteps)

NextPair ==
    \/ toggleAutoEvolution
    \/ changeFitnessFunction
    \/ TimerFire

SpecPair == InitPair /\ [][NextPair]_vars

----------------------------------------------------------------------------
(* Lineages: findLineage applied, through toggleLineage, to a family bred by  *)
(* createOffspring of which history retains any part, in the order bred       *)

\* the first child of its parent's batch
firstChild(parent, firstId) ==
    createOffspring("full", parent, "balanced", firstId)[1]

ChainRoot == createRandomBiomorph("full", <<5, 0, 0, 0, 5, 0, 0, 0, 0>>, "balanced", 1)
ChainA == firstChild(ChainRoot, 2)
\* a sibling of ChainA
ChainAside == createOffspring("full", ChainRoot, "balanced", 2)[2]
ChainB == firstChild(ChainA, 2 + BatchSize("full"))
ChainC == firstChild(ChainB, 2 + 2 * BatchSize("full"))
\* a child of ChainC
ChainChild == firstChild(ChainC, 2 + 3 * BatchSize("full"))

\* the family in the order it was bred
Family == <<ChainRoot, ChainA, ChainAside, ChainB, ChainC, ChainChild>>

\* the members of the family at the positions kept, in order
RECURSIVE retainedFamily(_, _)
retainedFamily(kept, i) ==
    IF i > Len(Family) THEN <<>>
    ELSE (IF i \in kept THEN <<Family[i]>> ELSE <<>>) \o retainedFamily(kept, i + 1)

InitLineage ==
    /\ variant = "full"
    /\ \E kept \in SUBSET (1..Len(Family)) : history = retainedFamily(kept, 1)
    /\ \E k \in 2..Len(Family) :
         /\ selectedBiomorph = Family[k]
         /\ biomorphs = createOffspring("full", Family[k], "balanced",
                                        2 + 4 * BatchSize("full"))
    /\ evolutionSpeed = 1000
    /\ nextId = 2 + 5 * BatchSize("full")
    /\ InitRest(RunUserOps, 0)
    /\ u = NoU
    /\ NothingDrawn
    /\ findLineageCall = NoCall

NextLineage == toggleLineage

SpecLineage == InitLineage /\ [][NextLineage]_vars

----------------------------------------------------------------------------
(* Ancestor walks: one findLineage(individual) call followed frame by frame  *)
(* over a history that retains any part of the family, with or without the   *)
(* parent link of ChainA bent forward to its own child ChainB                *)

\* frames the engine's call stack holds before it throws RangeError
MaxStack == 8

\* the history with every entry of ChainA's id given ChainB as its parent
looped(hist) ==
    [i \in 1..Len(hist) |->
        IF hist[i].id = ChainA.id THEN [hist[i] EXCEPT !.parent = ChainB.id]
        ELSE hist[i]]

InitCycle ==
    /\ variant = "full"
    /\ \E kept \in SUBSET (1..Len(Family)), bent \in BOOLEAN :
         history = IF bent THEN looped(retainedFamily(kept, 1))
                   ELSE retainedFamily(kept, 1)
    /\ \E k \in 2..Len(Family) :
         /\ selectedBiomorph = Family[k]
         /\ biomorphs = createOffspring("full", Family[k], "balanced",
                                        2 + 4 * BatchSize("full"))
    /\ evolutionSpeed = 1000
    /\ nextId = 2 + 5 * BatchSize("full")
    /\ InitRest(0, 0)
    /\ u = NoU
    /\ NothingDrawn
    /\ findLineageCall = [NoCall EXCEPT !.stack = <<selectedBiomorph>>]

\* everything but the call in progress
CallFrame ==
    UNCHANGED <<variant, appvars, prevFitnessRef, isRunningRef, timers,
                effectCleanup, nextId, lastOp, budget, u, drawvars>>

\* the innermost frame finds the parent and calls findLineage(parent)
findLineageRecurse ==
    /\ findLineageCall.stack # <<>> /\ findLineageCall.result = <<>>
    /\ Len(findLineageCall.stack) < MaxStack
    /\ LET biomorph == findLineageCall.stack[Len(findLineageCall.stack)]
           k == findIndex(history, biomorph.parent, 1)
       IN  /\ biomorph.parent # NoParent /\ k # 0
           /\ findLineageCall' =
                 [findLineageCall EXCEPT !.stack = Append(@, history[k])]
    /\ CallFrame

\* the same call with the stack exhausted: RangeError unwinds every frame
findLineageOverflow ==
    /\ findLineageCall.stack # <<>> /\ findLineageCall.result = <<>>
    /\ Len(findLineageCall.stack) = MaxStack
    /\ LET biomorph == findLineageCall.stack[Len(findLineageCall.stack)]
           k == findIndex(history, biomorph.parent, 1)
       IN  biomorph.parent # NoParent /\ k # 0
    /\ findLineageCall' = [NoCall EXCEPT !.thrown = TRUE]
    /\ CallFrame

\* return [biomorph] (no parent, or parent not found), or
\* return [...ancestors, biomorph] once the inner call has returned
findLineageReturn ==
    /\ findLineageCall.stack # <<>>
    /\ LET biomorph == findLineageCall.stack[Len(findLineageCall.stack)]
       IN  /\ \/ findLineageCall.result # <<>>
               \/ biomorph.parent = NoParent
               \/ findIndex(history, biomorph.parent, 1) = 0
           /\ findLineageCall' =
                 [findLineageCall EXCEPT
                    !.stack = SubSeq(@, 1, Len(@) - 1),
                    !.result = Append(@, biomorph)]
    /\ CallFrame

NextCycle ==
    \/ findLineageRecurse
    \/ findLineageOverflow
    \/ findLineageReturn

SpecCycle == InitCycle /\ [][NextCycle]_vars

----------------------------------------------------------------------------
(* Long histories: the reduced page after the user has clicked the first     *)
(* grid cell HistoryLimitReduced - 1 times, so that history holds as many     *)
(* entries as the step's limit allows                                         *)

\* the reduced page after its mount effect, as a record
mountedReduced(genes) ==
    LET initialBiomorph == createRandomBiomorph("reduced", genes, "balanced", 1)
    IN  [selectedBiomorph |-> initialBiomorph,
         history |-> <<initialBiomorph>>,
         biomorphs |-> createOffspring("reduced", initialBiomorph, "balanced", 2),
         generations |-> 0,
         nextId |-> 2 + BatchSize("reduced")]

\* selectBiomorph(biomorphs[0]) of the reduced page, on the record
selectFirstReduced(page) ==
    LET biomorph == page.biomorphs[1]
    IN  [selectedBiomorph |-> biomorph,
         history |-> Append(page.history, biomorph),
         biomorphs |-> createOffspring("reduced", biomorph, "balanced", page.nextId),
         generations |-> biomorph.generation + 1,
         nextId |-> page.nextId + BatchSize("reduced")]

\* the page after k more clicks on the first grid cell
RECURSIVE afterSelections(_, _)
afterSelections(page, k) ==
    IF k = 0 THEN page
    ELSE LET next == selectFirstReduced(page)
         IN  IF Len(next.history) > 0 THEN afterSelections(next, k - 1) ELSE next

\* the clicks made before the runs start
SelectionsMade == HistoryLimitReduced - 1

InitHistory ==
    /\ variant = "reduced"
    /\ \E genes \in GenesisGenes("reduced") :
         \E first \in {afterSelections(mountedReduced(genes), SelectionsMade \div 3)} :
         \E second \in {afterSelections(first, SelectionsMade \div 3)} :
         \E page \in {afterSelections(second,
                           SelectionsMade - 2 * (SelectionsMade \div 3))} :
            /\ selectedBiomorph = page.selectedBiomorph
            /\ history = page.history
            /\ biomorphs = page.biomorphs
            /\ generations = page.generations
            /\ nextId = page.nextId
    /\ evolutionSpeed = 1000
    /\ viewingHistory = FALSE
    /\ showLineage = FALSE
    /\ lineage = <<>>
    /\ editingGenes = FALSE
    /\ geneEditValues = <<0, 0, 0, 0, 0, 0, 0, 0, 0>>
    /\ autoEvolving = FALSE
    /\ fitnessFunction = "balanced"
    /\ autoEvolutionGeneration = 0
    /\ prevFitnessRef = 0
    /\ isRunningRef = FALSE
    /\ timers = {}
    /\ effectCleanup = 0
    /\ lastOp = "select"
    /\ budget = [user |-> RunUserOps, timer |-> MaxAutoSteps]
    /\ u = NoU
    /\ NothingDrawn
    /\ findLineageCall = NoCall

NextHistory ==
    \/ SelectFromGridReduced
    \/ NewRandom
    \/ toggleAutoEvolutionReduced
    \/ TimerFireReduced

SpecHistory == InitHistory /\ [][NextHistory]_vars

----------------------------------------------------------------------------
(* The page from its construction: the useState initial values, nothing      *)
(* selected; the mount effect is an action, and the start handler and the   *)
(* step callback can be invoked on the page as constructed                   *)

InitConstructed ==
    /\ variant \in {"full", "reduced"}
    /\ biomorphs = <<>>
    /\ selectedBiomorph = Null
    /\ history = <<>>
    /\ evolutionSpeed = (IF variant = "full" THEN 1000 ELSE 500)
    /\ nextId = 1
    /\ generations = 0
    /\ viewingHistory = FALSE
    /\ showLineage = FALSE
    /\ lineage = <<>>
    /\ editingGenes = FALSE
    /\ geneEditValues = <<0, 0, 0, 0, 0, 0, 0, 0, 0>>
    /\ autoEvolving = FALSE
    /\ fitnessFunction = "balanced"
    /\ autoEvolutionGeneration = 0
    /\ prevFitnessRef = 0
    /\ isRunningRef = FALSE
    /\ timers = {}
    /\ effectCleanup = 0
    /\ lastOp = "construct"
    /\ budget = [user |-> MaxUserOps, timer |-> MaxAutoSteps]
    /\ u = NoU
    /\ NothingDrawn
    /\ findLineageCall = NoCall

\* the mount effect, useEffect(() => {...}, []), run on the page as constructed
MountEffect ==
    /\ lastOp = "construct"
    /\ \E genes \in GenesisGenes(variant) :
         LET initialBiomorph == createRandomBiomorph(variant, genes,
                                    fitnessFunction, nextId)
         IN  /\ selectedBiomorph' = initialBiomorph
             /\ history' = <<initialBiomorph>>
             /\ biomorphs' = (IF variant = "full" THEN <<initialBiomorph>>
                              ELSE createOffspring("reduced", initialBiomorph,
                                       fitnessFunction, nextId + 1))
    /\ nextId' = nextId + 1 + (IF variant = "full" THEN 0 ELSE BatchSize("reduced"))
    /\ UNCHANGED <<generations, viewingHistory, showLineage, lineage,
                   editingGenes, geneEditValues, autoEvolving, evolutionSpeed,
                   fitnessFunction, autoEvolutionGeneration, prevFitnessRef>>
    /\ TimerEffect(timers, isRunningRef)
    /\ lastOp' = "mount"
    /\ UNCHANGED <<variant, budget, u, drawvars, findLineageCall>>

\* the states of autoEvolving a callback is invoked with
CallbackRunStates == BOOLEAN

\* runAutoEvolutionStep() of the full page invoked as a function while nothing
\* is selected, with either value of the autoEvolving it reads
InvokeStep ==
    /\ variant = "full"
    /\ budget.user > 0
    /\ selectedBiomorph = Null
    /\ \E ae \in CallbackRunStates :
         runAutoEvolutionStep([CurrentClosure EXCEPT !.autoEvolving = ae])
    /\ UNCHANGED <<viewingHistory, showLineage, editingGenes, geneEditValues,
                   autoEvolving, evolutionSpeed, fitnessFunction>>
    /\ AfterUserEvent("invokeStep")

\* runAutoEvolutionStep() of the reduced page invoked as a function while
\* nothing is selected
InvokeStepReduced ==
    /\ variant = "reduced"
    /\ budget.user > 0
    /\ selectedBiomorph = Null
    /\ \E ae \in CallbackRunStates :
         runAutoEvolutionStepReduced([CurrentClosure EXCEPT !.autoEvolving = ae])
    /\ UNCHANGED <<autoEvolving, evolutionSpeed>>
    /\ ReducedFrame
    /\ AfterUserEvent("invokeStep")

NextConstructed ==
    \/ MountEffect
    \/ toggleAutoEvolution
    \/ toggleAutoEvolutionReduced
    \/ InvokeStep
    \/ InvokeStepReduced
    \/ TimerFire
    \/ TimerFireReduced

SpecConstructed == InitConstructed /\ [][NextConstructed]_vars

----------------------------------------------------------------------------
(* Fitness: the full page is mounted on a random individual, which computes  *)
(* its balanced fitness; a start and a change of policy recompute it under   *)
(* the other policies                                                         *)

\* the values of a gene at the ends of its range, at the kinks of |g| and
\* |g - 5|, and at a value in between
FitnessLevels == {-10, -3, 0, 5, 10}

\* gene vectors over FitnessLevels in the seven genes calculateFitness reads
FitnessGenes ==
    {<<g0, g1, 0, g3, g4, g5, 0, g7, g8>> :
        g0 \in FitnessLevels, g1 \in FitnessLevels, g3 \in FitnessLevels,
        g4 \in FitnessLevels, g5 \in FitnessLevels, g7 \in FitnessLevels,
        g8 \in FitnessLevels}

InitFitness ==
    /\ \E genes \in FitnessGenes : InitFull(genes)
    /\ InitRest(2, 0)
    /\ u = NoU
    /\ NothingDrawn
    /\ findLineageCall = NoCall

NextFitness ==
    \/ toggleAutoEvolution
    \/ changeFitnessFunction

SpecFitness == InitFitness /\ [][NextFitness]_vars

----------------------------------------------------------------------------
(* The queue walk on its own: drawOptimizedBiomorph applied to the mapped   *)
(* parameters of a gene vector, whatever their depth                        *)

\* the gene vectors walked: recursionDepth genes that map to the depths 1,
\* 3, 4 and 5, branchSplits genes that map to 2, 3 and 4 splits
WalkGenes ==
    {<<angle, 0, 0, depth, 0, asymmetry, 0, curvature, splits>> :
        angle \in {-10, 3}, depth \in {-10, -4, -1, 2}, asymmetry \in {-5, 4},
        curvature \in {0, 7}, splits \in {-10, 0, 10}}

\* the call in progress once drawBiomorph has handed params to the queue walk
startedWalk(biomorph, params, served) ==
    [biomorph |-> biomorph, params |-> params, served |-> served,
     queue |-> <<trunk(params)>>, branches |-> <<>>]

InitWalk ==
    /\ \E genes \in WalkGenes :
         /\ InitFull(genes)
         /\ drawingParamsCache =
              <<[key |-> cacheKey(genes), value |-> drawingParams(genes)]>>
         /\ drawing = startedWalk(
                createRandomBiomorph("full", genes, "balanced", 1),
                drawingParams(genes), "miss")
    /\ InitRest(0, 0)
    /\ u = NoU
    /\ drawn = <<>>
    /\ findLineageCall = NoCall

NextWalk ==
    \/ QueueStep
    \/ StrokeBranches

SpecWalk == InitWalk /\ [][NextWalk]_vars

\* the while loop and the stroke loop run on until they are done
SpecWalkFair == SpecWalk /\ WF_vars(NextWalk)

----------------------------------------------------------------------------
(* Drawing: drawBiomorph calls on a page whose parameter cache is nearly    *)
(* full, as it is after many generations have been displayed                *)

\* number of drawBiomorph calls explored in one run
MaxDraws == 3

\* two gene vectors whose decimal digits agree, and a deep one
SketchA == <<1, 0, 10, -7, 0, 0, 0, 0, -10>>
SketchB == <<10, 1, 0, -7, 0, 0, 0, 0, -10>>
SketchDeep == <<0, 0, 0, 2, 0, 3, 0, -4, -10>>

\* the individuals handed to drawBiomorph: the same genes under two ids
Sketches ==
    {[id |-> 1, genes |-> SketchA], [id |-> 2, genes |-> SketchA],
     [id |-> 3, genes |-> SketchB], [id |-> 4, genes |-> SketchDeep]}

\* the cache after SketchA and then size - 1 other gene vectors, all
\* different from the sketches, were drawn
filledCache(size) ==
    [k \in 1..size |->
        LET genes == IF k = 1 THEN SketchA
                     ELSE <<(k % 21) - 10, ((k \div 21) % 21) - 10,
                            (k \div 441) - 10, 0, 0, 0, 7, 0, 0>>
        IN  [key |-> cacheKey(genes), value |-> drawingParams(genes)]]

\* the pages that draw: the unthrottled page keeps no cache
InitDraw ==
    /\ \/ /\ \E genes \in GenesisGenes("full") : InitFull(genes)
          /\ \E size \in {CacheCapacity - 1, CacheCapacity} :
               drawingParamsCache = filledCache(size)
       \/ /\ \E genes \in GenesisGenes("reduced") : InitReduced(genes)
          /\ \E size \in {CacheCapacityReduced - 1, CacheCapacityReduced} :
               drawingParamsCache = filledCache(size)
       \/ /\ \E genes \in GenesisGenes("full") :
               LET page == mountUnthrottled(genes)
               IN  /\ variant = "unthrottled"
                   /\ biomorphs = page.biomorphs
                   /\ selectedBiomorph = page.selectedBiomorph
                   /\ history = page.history
                   /\ evolutionSpeed = 1000
                   /\ nextId = page.nextId
          /\ drawingParamsCache = <<>>
    /\ InitRest(0, 0)
    /\ u = NoU
    /\ drawing = Idle
    /\ drawn = <<>>
    /\ findLineageCall = NoCall

\* drawBiomorph up to the choice of the walk; the recursive walk runs in it
drawBiomorph(biomorph) ==
    /\ drawing = Idle
    /\ LET key == cacheKey(biomorph.genes)
           cached == variant # "unthrottled"
           hit == cached /\ cacheHas(drawingParamsCache, key)
           params == IF hit THEN cacheGet(drawingParamsCache, key)
                     ELSE drawingParams(biomorph.genes)
           served == IF hit THEN "hit" ELSE "miss"
       IN  /\ drawingParamsCache' =
                IF cached /\ ~hit
                THEN limitCache(variant,
                         cacheSet(drawingParamsCache, key, params))
                ELSE drawingParamsCache
           /\ IF cached /\ params.depth <= 4
              THEN /\ drawing' = startedWalk(biomorph, params, served)
                   /\ drawn' = drawn
              ELSE /\ drawing' = Idle
                   /\ drawn' = Append(drawn,
                          drawnCanvas(biomorph, params, served,
                                      drawRecursive(variant, params)))

\* one canvas of drawVisibleBiomorphs
Draw ==
    /\ Len(drawn) < MaxDraws
    /\ \E biomorph \in Sketches : drawBiomorph(biomorph)
    /\ PageFrame

NextDraw ==
    \/ Draw
    \/ QueueStep
    \/ StrokeBranches

SpecDraw == InitDraw /\ [][NextDraw]_vars

----------------------------------------------------------------------------
(* Foreign genotypes: drawBiomorph handed gene vectors that no handler of    *)
(* the page produces, with genes below -10 and above 10                      *)

\* recursionDepth and branchSplits genes on both sides of [-10, 10]
ForeignGenes ==
    {<<0, 0, 0, 13, 0, 0, 0, 0, -30>>, <<0, 0, 0, -30, 0, 0, 0, 0, 30>>,
     <<15, -12, 0, -4, 0, 0, 0, 0, 30>>, <<0, 0, 0, 20, 0, 0, 0, 0, -11>>}

InitForeign ==
    /\ \E genes \in GenesisGenes("full") : InitFull(genes)
    /\ InitRest(0, 0)
    /\ u = NoU
    /\ NothingDrawn
    /\ findLineageCall = NoCall

\* drawBiomorph(biomorph, canvas) on a foreign genotype
DrawForeign ==
    /\ Len(drawn) < MaxDraws
    /\ \E genes \in ForeignGenes :
         drawBiomorph([id |-> nextId + Len(drawn), genes |-> genes])
    /\ PageFrame

NextForeign ==
    \/ DrawForeign
    \/ QueueStep
    \/ StrokeBranches

SpecForeign == InitForeign /\ [][NextForeign]_vars

----------------------------------------------------------------------------
(* The interactive machine with its timers: a pending setTimeout callback   *)
(* that is not cleared is run by the event loop                             *)

\* a step in which a pending setTimeout callback runs: the steps of
\* TimerFire and TimerFireReduced are the steps of Next that satisfy it, and
\* one of the two is enabled exactly when a timer is pending and the run has
\* firings left
TimerRuns ==
    /\ timers # {}
    /\ budget.timer > 0
    /\ lastOp' = "timer"
    /\ budget' = [budget EXCEPT !.timer = @ - 1]

\* setTimeout: a callback that stays pending is run
SpecFair == Spec /\ WF_<<lastOp, budget>>(TimerRuns)

----------------------------------------------------------------------------
(* Climbs: the full page is mounted on a random individual, the user starts  *)
(* auto-evolution under the balanced policy and leaves the page alone; the   *)
(* pending timer is run by the event loop                                    *)

\* timer firings of one climb: the four genes the balanced policy reads can
\* each be ten steps away from their best value
MaxClimb == 40

\* the genes the balanced policy reads (1, 3, 5, 8) start at a bound, at 0
\* and at an inner value
InitClimb ==
    /\ \E a \in {-10, 0, 7}, b \in {-3, 0, 10}, c \in {-10, 0, 6}, d \in {-10, 0, 5} :
         InitFull(<<5, a, 0, b, 5, c, 0, 0, d>>)
    /\ InitRest(1, MaxClimb)
    /\ u = NoU
    /\ NothingDrawn
    /\ findLineageCall = NoCall

NextClimb ==
    \/ toggleAutoEvolution
    \/ TimerFire

SpecClimb == InitClimb /\ [][NextClimb]_vars /\ WF_<<lastOp, budget>>(TimerRuns)

----------------------------------------------------------------------------
(* Properties *)

\* the fitness of the current individual under the balanced policy
balancedFitness == FitnessOf(variant, selectedBiomorph.genes, "balanced")

\* C1: under the balanced policy every auto-evolution step, on the full and on
\* the reduced page, leaves the fitness of the current individual greater
\* than or equal to what it was before the step
C1_FitnessNeverDecreases ==
    [][(lastOp' = "timer" /\ fitnessFunction = "balanced"
            /\ fitnessFunction' = "balanced")
        => balancedFitness' >= balancedFitness]_vars

\* a reduced-page run that used up all its steps and gained fitness
C1_Witness ==
    /\ variant = "reduced"
    /\ lastOp = "timer"
    /\ budget.timer = 0
    /\ fitnessFunction = "balanced"
    /\ balancedFitness > history[1].fitness

\* the state a step of auto-evolution writes, apart from ids
StepState == <<selectedBiomorph, biomorphs, history, generations>>

\* C2: at most one auto-evolution timer is pending, it is pending only while
\* the controller is Running, and it is the timer of the schedule in force:
\* the one the registered cleanup holds, armed with the current individual
\* (a schedule superseded by a stop, a speed change, a manual selection or a
\* step has no timer left to fire)
C2_OneStepInFlight ==
    /\ Cardinality(timers) <= 1
    /\ \A t \in timers :
         /\ autoEvolving /\ isRunningRef
         /\ t.id = effectCleanup
         /\ t.delay = evolutionSpeed
         /\ t.closure.autoEvolving
         /\ t.closure.selectedBiomorph = selectedBiomorph

\* a manual selection made after a step while Running: one timer, re-armed
C2_Witness ==
    /\ lastOp = "select"
    /\ autoEvolving
    /\ budget.timer < MaxAutoSteps
    /\ Cardinality(timers) = 1

\* C3: the stop action leaves no timer pending and does not change the
\* current individual, the batch, the history or the generation counter; and
\* while the controller is Idle no timer is pending and no timer firing
\* changes any of them
C3_StopCancelsTimer ==
    [][/\ lastOp' = "stop" =>
            /\ ~autoEvolving' /\ timers' = {}
            /\ UNCHANGED StepState
       /\ ~autoEvolving' => timers' = {}
       /\ (~autoEvolving /\ lastOp' = "timer") => UNCHANGED StepState]_vars

\* a stop after at least one executed step
C3_Witness ==
    /\ lastOp = "stop"
    /\ budget.timer < MaxAutoSteps
    /\ ~autoEvolving
    /\ timers = {}

\* the genotypes the page retains
Retained ==
    {selectedBiomorph} \cup {biomorphs[k] : k \in 1..Len(biomorphs)}
        \cup {history[k] : k \in 1..Len(history)}
        \cup {lineage[k] : k \in 1..Len(lineage)}

\* C4: every gene of every retained genotype (current individual, batch,
\* history, lineage) is an integer of -10..10, and there are nine of them
C4_GenesInRange ==
    \A b \in Retained \ {Null} :
        /\ Len(b.genes) = 9
        /\ \A k \in 1..9 : b.genes[k] \in -10..10

\* after a step, the batch holds a child whose mutation was stopped at a bound
C4_Witness ==
    /\ lastOp = "timer"
    /\ \E k \in 1..Len(biomorphs) :
         /\ biomorphs[k].parent = selectedBiomorph.id
         /\ biomorphs[k].genes = selectedBiomorph.genes
    /\ \E k \in 1..Len(history) : \E j \in 1..9 : history[k].genes[j] \in {-10, 10}

\* the handlers that leave createOffspring(current individual) as the batch
Breeders == {"select", "selectAncestor", "applyGenes", "continue", "newRandom",
             "timer", "stepForward"}

\* C6: a batch just returned by createOffspring has generation = parent's
\* generation + 1 and parent = parent's id in every member; and every retained
\* genotype whose parent id is the id of a history entry has that entry's
\* generation + 1
C6_GenerationFollowsParent ==
    /\ (lastOp \in Breeders \/ (lastOp = "reset" /\ variant = "reduced")) =>
          \A k \in 1..Len(biomorphs) :
              /\ biomorphs[k].generation = selectedBiomorph.generation + 1
              /\ biomorphs[k].parent = selectedBiomorph.id
    /\ \A b \in Retained \ {Null} : \A k \in 1..Len(history) :
          history[k].id = b.parent => b.generation = history[k].generation + 1

\* an individual made by the gene editor whose parent is in history
C6_Witness ==
    /\ lastOp = "applyGenes"
    /\ \E k \in 1..Len(history) :
         /\ history[k].id = selectedBiomorph.parent
         /\ selectedBiomorph.generation = history[k].generation + 1
    /\ Len(biomorphs) = BatchSize("full")

\* number of genes in which two gene vectors differ
Differing(g, h) == Cardinality({k \in 1..9 : g[k] # h[k]})

\* C5: the batch createOffspring returns for a parent of the full page has 18
\* members; each has genes in -10..10 and differs from the parent in at most
\* one gene, by exactly 1; for every gene below 10 one member has that gene
\* raised by one, for every gene above -10 one member has it lowered by one,
\* and each mutation that a bound stops gives a member identical to the
\* parent; with all genes 5, gene 3 gives a child with 6 and a child with 4
C5_EighteenSingleStepMutants ==
    (variant = "full" /\ lastOp = "select") =>
        LET parent == selectedBiomorph
            AtBound == {k \in 1..9 : parent.genes[k] = 10}
                           \cup {-k : k \in {j \in 1..9 : parent.genes[j] = -10}}
        IN  /\ Len(biomorphs) = 18
            /\ \A p \in 1..Len(biomorphs) :
                   /\ \A k \in 1..9 : biomorphs[p].genes[k] \in -10..10
                   /\ Differing(biomorphs[p].genes, parent.genes) <= 1
                   /\ \A k \in 1..9 :
                          Abs(biomorphs[p].genes[k] - parent.genes[k]) <= 1
            /\ \A k \in 1..9 :
                   /\ parent.genes[k] < 10 =>
                          \E p \in 1..Len(biomorphs) : biomorphs[p].genes =
                              [parent.genes EXCEPT ![k] = @ + 1]
                   /\ parent.genes[k] > -10 =>
                          \E p \in 1..Len(biomorphs) : biomorphs[p].genes =
                              [parent.genes EXCEPT ![k] = @ - 1]
            /\ Cardinality({p \in 1..Len(biomorphs) :
                               biomorphs[p].genes = parent.genes})
                   = Cardinality(AtBound)
            /\ parent.genes = <<5, 5, 5, 5, 5, 5, 5, 5, 5>> =>
                   /\ biomorphs[7].genes = <<5, 5, 5, 6, 5, 5, 5, 5, 5>>
                   /\ biomorphs[8].genes = <<5, 5, 5, 4, 5, 5, 5, 5, 5>>

\* a parent with a gene at +10 and a gene at -10 was bred: its batch holds
\* members identical to it
C5_Witness ==
    /\ variant = "full" /\ lastOp = "select"
    /\ selectedBiomorph.genes[4] = 10 /\ selectedBiomorph.genes[2] = -10
    /\ biomorphs[7].genes = selectedBiomorph.genes
    /\ biomorphs[4].genes = selectedBiomorph.genes
    /\ biomorphs[1].genes # selectedBiomorph.genes

\* the batch the next step of auto-evolution generates its candidates from
StepBatch == createOffspring(variant, selectedBiomorph, fitnessFunction, nextId)

\* the first position of a batch that holds its greatest fitness
firstFittest(batch) ==
    CHOOSE p \in 1..Len(batch) :
        /\ \A q \in 1..Len(batch) : batch[q].fitness <= batch[p].fitness
        /\ \A q \in 1..(p - 1) : batch[q].fitness < batch[p].fitness

\* C7: the individual an auto-evolution step makes current is the member of
\* createOffspring's sequence that comes first among those of greatest fitness
C7_EarliestOfTheFittest ==
    [][lastOp' = "timer" =>
           selectedBiomorph' = StepBatch[firstFittest(StepBatch)]]_vars

\* a first step of the full page whose parent was at the greatest balanced
\* fitness: the up and the down child of gene 0 tie with it, the up child won
C7_Witness ==
    /\ variant = "full" /\ lastOp = "timer" /\ fitnessFunction = "balanced"
    /\ Len(history) >= 2
    /\ selectedBiomorph.parent = history[1].id
    /\ selectedBiomorph.genes = mutationUp(history[1].genes, 0)
    /\ selectedBiomorph.genes # history[1].genes
    /\ selectedBiomorph.fitness = history[1].fitness
    /\ calculateFitness(mutationDown(history[1].genes, 0), "balanced")
           = selectedBiomorph.fitness

\* C8: after the same events, the full page (throttled history append) and
\* the unthrottled page (append on every step) have current individuals with
\* the same gene vector -- after every step of the run, so the two sequences
\* of selected gene vectors are equal
C8_ThrottleDoesNotAffectChoice ==
    u # NoU =>
        /\ u.selectedBiomorph.genes = selectedBiomorph.genes
        /\ u.selectedBiomorph.generation = selectedBiomorph.generation
        /\ u.fitnessFunction = fitnessFunction

\* a run that used all its steps, in which the throttle skipped appends
C8_Witness ==
    /\ u # NoU
    /\ lastOp = "timer"
    /\ budget.timer = 0
    /\ Len(history) < Len(u.history)
    /\ u.selectedBiomorph.genes = selectedBiomorph.genes
    /\ selectedBiomorph.genes # history[1].genes

\* history holds the individual b
InHistory(b) == \E k \in 1..Len(history) : history[k] = b

\* C9: with root, a and b of the chain root -> a -> b -> c all in history,
\* the lineage computed for c is <<root, a, b, c>>: earliest ancestor first,
\* c last
C9_LineageOfRetainedChain ==
    (/\ showLineage
     /\ selectedBiomorph = ChainC
     /\ InHistory(ChainRoot) /\ InHistory(ChainA) /\ InHistory(ChainB))
        => lineage = <<ChainRoot, ChainA, ChainB, ChainC>>

\* the lineage of c was computed from a history that retains the whole chain
\* among other individuals
C9_Witness ==
    /\ lastOp = "toggleLineage"
    /\ showLineage
    /\ selectedBiomorph = ChainC
    /\ InHistory(ChainRoot) /\ InHistory(ChainA) /\ InHistory(ChainB)
    /\ InHistory(ChainAside)
    /\ Len(lineage) = 4

\* the sequence l is a chain of parent links that ends in the individual b,
\* takes every member but b from history, and starts at an individual that
\* has no parent or whose parent is not in history
ReconstructibleSuffix(l, b) ==
    /\ Len(l) >= 1
    /\ l[Len(l)] = b
    /\ \A i \in 1..(Len(l) - 1) : InHistory(l[i]) /\ l[i].id = l[i + 1].parent
    /\ \/ l[1].parent = NoParent
       \/ \A k \in 1..Len(history) : history[k].id # l[1].parent

\* C10: when an ancestor is not in history the lineage computed is still a
\* sequence, the longest suffix of the chain that can be rebuilt:
\* <<a, b, c>> when root is missing, <<c>> when the parent of c is missing
C10_LineageStopsAtMissingAncestor ==
    showLineage =>
        /\ ReconstructibleSuffix(lineage, selectedBiomorph)
        /\ selectedBiomorph = ChainC =>
             /\ (~InHistory(ChainRoot) /\ InHistory(ChainA) /\ InHistory(ChainB))
                    => lineage = <<ChainA, ChainB, ChainC>>
             /\ (~InHistory(ChainA) /\ InHistory(ChainB))
                    => lineage = <<ChainB, ChainC>>
             /\ ~InHistory(ChainB) => lineage = <<ChainC>>

\* the lineage of c was computed from a history that holds a and b but not root
C10_Witness ==
    /\ lastOp = "toggleLineage"
    /\ showLineage
    /\ selectedBiomorph = ChainC
    /\ ~InHistory(ChainRoot) /\ InHistory(ChainA) /\ InHistory(ChainB)
    /\ lineage = <<ChainA, ChainB, ChainC>>

\* the greatest number of entries the page's step keeps in history
historyLimitOf(v) == IF v = "full" THEN HistoryLimit ELSE HistoryLimitReduced

\* C11: history never holds more entries than the limit of the page
C11_HistoryWithinLimit ==
    Len(history) <= historyLimitOf(variant)

\* the handlers by which the user makes an individual current
ManualSelections == {"select", "selectAncestor", "applyGenes", "newRandom"}

\* C12: the tick that follows a manual selection made while Running breeds
\* from the individual selected: the new current individual is one generation
\* on and its parent is the id of the manually selected individual; and no
\* tick ever breeds from an individual other than the current one
C12_TickSeesManualSelection ==
    [][/\ (lastOp \in ManualSelections /\ autoEvolving /\ lastOp' = "timer") =>
            /\ selectedBiomorph'.parent = selectedBiomorph.id
            /\ selectedBiomorph'.generation = selectedBiomorph.generation + 1
       /\ (lastOp' = "timer" /\ selectedBiomorph' # selectedBiomorph) =>
            selectedBiomorph'.parent = selectedBiomorph.id]_vars

\* the full page was started, ticked, the user then selected from the grid an
\* individual other than the one a tick would have chosen, and the page ticked
\* again: the current individual is a child of the one selected by hand
C12_Witness ==
    /\ variant = "full"
    /\ lastOp = "timer"
    /\ autoEvolving
    /\ budget.user = MaxUserOps - 2
    /\ Len(history) >= 3
    /\ history[2].parent = history[1].id
    /\ history[3].parent = history[2].id
    /\ history[3].genes
           # fittestOf(createOffspring("full", history[2], fitnessFunction, 0)).genes
    /\ selectedBiomorph.parent = history[3].id

\* C13: a start made while nothing is selected makes the controller Running
\* and creates a random root individual (generation 0, no parent) that is the
\* current individual, is in history, and whose offspring are the batch
C13_StartWithNothingSelected ==
    [][(selectedBiomorph = Null /\ lastOp' = "start") =>
           /\ autoEvolving'
           /\ selectedBiomorph' # Null
           /\ selectedBiomorph'.generation = 0
           /\ selectedBiomorph'.parent = NoParent
           /\ \E k \in 1..Len(history') : history'[k] = selectedBiomorph'
           /\ Len(biomorphs') = BatchSize(variant)
           /\ biomorphs' = createOffspring(variant, selectedBiomorph',
                               fitnessFunction', biomorphs'[1].id)]_vars

\* the full page was started as constructed: history holds the one root, the
\* batch is its offspring (the mount effect leaves a batch of one) and a tick
\* is pending
C13_Witness ==
    /\ variant = "full"
    /\ lastOp = "start"
    /\ autoEvolving
    /\ history = <<selectedBiomorph>>
    /\ selectedBiomorph.generation = 0
    /\ Len(biomorphs) = BatchSize("full")
    /\ biomorphs[1].parent = selectedBiomorph.id
    /\ timers # {}

\* C14: a step that runs while nothing is selected changes nothing: the
\* current individual, the batch, history, the generation counters, the run
\* state and the pending timers are as before
C14_StepWithNothingSelected ==
    [][(selectedBiomorph = Null /\ lastOp' \in {"invokeStep", "timer", "stepForward"}) =>
           UNCHANGED <<selectedBiomorph, biomorphs, history, lineage, generations,
                       autoEvolutionGeneration, autoEvolving, prevFitnessRef,
                       timers, isRunningRef, nextId>>]_vars

\* the step ran twice on the full page as constructed and nothing is selected
C14_Witness ==
    /\ variant = "full"
    /\ lastOp = "invokeStep"
    /\ budget.user = MaxUserOps - 2
    /\ selectedBiomorph = Null
    /\ history = <<>> /\ biomorphs = <<>>
    /\ ~autoEvolving

\* C15: a change of the period while Running leaves the controller Running
\* with exactly one tick pending, and every pending tick, after the change and
\* after every later handler or tick, was armed with the period in force
C15_PeriodChangeReschedules ==
    [][/\ lastOp' = "speed" =>
            /\ autoEvolving /\ autoEvolving'
            /\ Cardinality(timers') = 1
            /\ \A t \in timers' : t \notin timers
       /\ \A t \in timers' : t.delay = evolutionSpeed']_vars

\* the period of the full page was changed from 1000 to 500 while Running, a
\* tick fired after the change and the next tick is pending with period 500
C15_Witness ==
    /\ variant = "full"
    /\ autoEvolving
    /\ lastOp = "timer"
    /\ evolutionSpeed = 500
    /\ autoEvolutionGeneration >= 1
    /\ \E t \in timers : t.delay = 500

\* the individual b but for its cached fitness
Genotype(b) == [id |-> b.id, genes |-> b.genes, generation |-> b.generation,
                parent |-> b.parent]

\* the individuals of the primed state that this step created
CreatedByStep ==
    {b \in {biomorphs'[k] : k \in 1..Len(biomorphs')} \cup {selectedBiomorph'} :
        b # Null /\ b.id >= nextId}

\* C16: a switch to policy p with an individual selected gives the current
\* individual and every member of the batch their fitness under p, changes
\* nothing else of them and nothing of history; and whatever a later handler
\* or tick creates has its fitness computed under the policy then active
C16_PolicySwitchRecomputes ==
    [][/\ (lastOp' = "policy" /\ selectedBiomorph # Null) =>
            /\ fitnessFunction' # fitnessFunction
            /\ Genotype(selectedBiomorph') = Genotype(selectedBiomorph)
            /\ selectedBiomorph'.fitness
                   = calculateFitness(selectedBiomorph.genes, fitnessFunction')
            /\ Len(biomorphs') = Len(biomorphs)
            /\ \A k \in 1..Len(biomorphs) :
                   /\ Genotype(biomorphs'[k]) = Genotype(biomorphs[k])
                   /\ biomorphs'[k].fitness
                          = calculateFitness(biomorphs[k].genes, fitnessFunction')
            /\ history' = history
       /\ variant = "full" =>
            \A b \in CreatedByStep :
                b.fitness = calculateFitness(b.genes, fitnessFunction')]_vars

\* the policy of the full page was switched away from balanced and a tick
\* followed: the current individual and the batch are new and carry fitness
\* under the new policy, which differs from their balanced fitness, while the
\* first history entry still carries its balanced fitness
C16_Witness ==
    /\ variant = "full"
    /\ lastOp = "timer"
    /\ fitnessFunction # "balanced"
    /\ selectedBiomorph.fitness
           = calculateFitness(selectedBiomorph.genes, fitnessFunction)
    /\ selectedBiomorph.fitness
           # calculateFitness(selectedBiomorph.genes, "balanced")
    /\ \A k \in 1..Len(biomorphs) :
           biomorphs[k].fitness = calculateFitness(biomorphs[k].genes, fitnessFunction)
    /\ history[1].fitness = calculateFitness(history[1].genes, "balanced")
    /\ history[1].fitness # calculateFitness(history[1].genes, fitnessFunction)

\* C17: under every policy the fitness computed for a gene vector of
\* [-10, 10]^9 is at least 0, also where the raw score is negative
C17_FitnessNotNegative ==
    /\ selectedBiomorph.fitness >= 0
    /\ \A k \in 1..Len(biomorphs) : biomorphs[k].fitness >= 0
    /\ (/\ fitnessFunction = "complex"
        /\ Gene(selectedBiomorph.genes, 3) = -10
        /\ Gene(selectedBiomorph.genes, 8) = -10) => selectedBiomorph.fitness = 0

\* the complex fitness of an individual with depth -10 and splits -10, whose
\* raw score is negative, was computed
C17_Witness ==
    /\ lastOp = "policy"
    /\ fitnessFunction = "complex"
    /\ Gene(selectedBiomorph.genes, 3) = -10
    /\ Gene(selectedBiomorph.genes, 8) = -10
    /\ Gene(selectedBiomorph.genes, 1) = 5
    /\ Gene(selectedBiomorph.genes, 4) = 5
    /\ selectedBiomorph.fitness = 0

\* |a - b|
Distance(a, b) == IF a >= b THEN a - b ELSE b - a

\* twice the raw score the policies are documented to give (fitness is kept
\* in half units)
DocumentedRaw(g, policy) ==
    CASE policy = "balanced" ->
             2 * Distance(Gene(g, 3), 0) + Distance(Gene(g, 1), 0)
             + 2 * (10 - Distance(Gene(g, 5), 0)) + Distance(Gene(g, 8), 0)
      [] policy = "complex" ->
             4 * Gene(g, 3) + 3 * Gene(g, 8)
             + 2 * (10 - Distance(Gene(g, 1), 5))
             + 2 * (10 - Distance(Gene(g, 4), 5))
      [] policy = "symmetric" ->
             4 * (10 - Distance(Gene(g, 5), 0))
             + 3 * (10 - Distance(Gene(g, 7), 0))
             + 2 * (10 - Distance(Gene(g, 0), 5))

\* C18: the fitness computed under a policy is the raw score of that policy,
\* or 0 where the raw score is negative; the all-zero gene vector has
\* balanced fitness 10 (20 half units)
C18_FitnessFormulas ==
    /\ selectedBiomorph.fitness
           = (IF DocumentedRaw(selectedBiomorph.genes, fitnessFunction) < 0 THEN 0
              ELSE DocumentedRaw(selectedBiomorph.genes, fitnessFunction))
    /\ (/\ fitnessFunction = "balanced"
        /\ selectedBiomorph.genes = <<0, 0, 0, 0, 0, 0, 0, 0, 0>>)
           => selectedBiomorph.fitness = 20

\* the symmetric fitness of an individual was computed whose angle term is
\* negative and whose asymmetry and curvature are negative
C18_Witness ==
    /\ lastOp = "policy"
    /\ fitnessFunction = "symmetric"
    /\ selectedBiomorph.genes = <<-10, -3, 0, 5, 10, -3, 0, -10, 5>>
    /\ selectedBiomorph.fitness = 4 * 7 + 3 * 0 + 2 * (-5)

\* the gene vector g with gene k (0-based) moved by d, unless that leaves -10..10
Moved(g, k, d) ==
    [j \in 1..Len(g) |->
        IF j = k + 1 /\ g[j] + d \in -10..10 THEN g[j] + d ELSE g[j]]

\* number of genes the page mutates
MutatedGenes(v) == IF v = "reduced" THEN 4 ELSE 9

\* C19: in the batch createOffspring returns, for the k-th mutated gene
\* (k = 0, 1, ... in ascending gene order) position 2k holds the +1 mutation of
\* gene k and position 2k + 1 its -1 mutation, whatever the parent's genes and
\* fitness (positions are 1-based in the model: 2k + 1 and 2k + 2)
C19_OffspringOrder ==
    (lastOp = "select" \/ (lastOp = "mount" /\ variant = "reduced")) =>
        /\ Len(biomorphs) = 2 * MutatedGenes(variant)
        /\ \A k \in 0..(MutatedGenes(variant) - 1) :
               /\ biomorphs[2 * k + 1].genes = Moved(selectedBiomorph.genes, k, 1)
               /\ biomorphs[2 * k + 2].genes = Moved(selectedBiomorph.genes, k, -1)

\* a parent of the reduced page was bred whose gene 1 is inside the range:
\* positions 2 and 3 (0-based) hold its gene-1 mutants, up first
C19_Witness ==
    /\ variant = "reduced" /\ lastOp = "select"
    /\ Gene(selectedBiomorph.genes, 1) = 5
    /\ Gene(biomorphs[3].genes, 1) = 6
    /\ Gene(biomorphs[4].genes, 1) = 4
    /\ Gene(biomorphs[8].genes, 3) = Gene(selectedBiomorph.genes, 3) - 1

\* genes 4 to 8 of a gene vector
UnmutatedGenes(g) == SubSeq(g, 5, 9)

\* C20: on the reduced page every batch has 8 members, each with genes 4 to 8
\* of the current individual, and no selection and no auto-evolution step
\* changes genes 4 to 8 of the current individual
C20_ReducedPageKeepsGenes4To8 ==
    [][variant = "reduced" =>
           /\ Len(biomorphs') = 8
           /\ \A k \in 1..Len(biomorphs') :
                  /\ UnmutatedGenes(biomorphs'[k].genes)
                         = UnmutatedGenes(selectedBiomorph'.genes)
                  /\ Differing(biomorphs'[k].genes, selectedBiomorph'.genes) <= 1
           /\ lastOp' \in {"select", "timer", "start", "stop", "speed"} =>
                  UnmutatedGenes(selectedBiomorph'.genes)
                      = UnmutatedGenes(selectedBiomorph.genes)]_vars

\* the reduced page was started, the user selected once and ticks fired: the
\* current individual is two or more generations from the genesis, differs
\* from it in genes 0 to 3 and has its genes 4 to 8
C20_Witness ==
    /\ variant = "reduced"
    /\ lastOp = "timer"
    /\ budget.user = MaxUserOps - 2
    /\ Len(history) >= 2
    /\ history[1].generation = 0
    /\ history[2].parent = history[1].id
    /\ selectedBiomorph.generation >= 3
    /\ UnmutatedGenes(selectedBiomorph.genes) = UnmutatedGenes(history[1].genes)
    /\ SubSeq(selectedBiomorph.genes, 1, 4) # SubSeq(history[1].genes, 1, 4)

\* the set of elements of a sequence
Range(seq) == {seq[i] : i \in DOMAIN seq}

\* C21: for every gene vector the queue walk (drawOptimizedBiomorph) strokes
\* the same set of segments (start, end, remaining depth, colour, width) as
\* the recursive walk (drawBranch) does for the same mapped parameters, for
\* mapped depths up to 4 and above 4 alike
C21_WalksEmitSameSegments ==
    \A i \in DOMAIN drawn :
        Range(drawn[i].segments) =
            Range(drawRecursive(variant, drawn[i].params))

\* a finished queue walk of a tree deeper than 4 with three splits per node
C21_Witness ==
    \E i \in DOMAIN drawn :
        /\ drawn[i].params.depth > 4
        /\ drawn[i].params.splits = 3
        /\ Len(drawn[i].segments) = 121

\* C22: the phenotype depends on the gene vector only: any two finished
\* drawBiomorph calls on equal gene vectors used the same mapped parameters
\* and stroked the same list of segments, whatever the ids, whatever was
\* drawn in between, and whether the parameters came from the cache or were
\* recomputed after a miss or a trim of the cache
C22_PhenotypeOfGenesOnly ==
    \A i, j \in DOMAIN drawn :
        drawn[i].genes = drawn[j].genes =>
            /\ drawn[i].params = drawn[j].params
            /\ drawn[i].segments = drawn[j].segments

\* the same genes drawn under two ids, first from the cache, then, after
\* another gene vector was drawn and the cache trimmed, recomputed
C22_Witness ==
    \E i, k, j \in DOMAIN drawn :
        /\ i < k /\ k < j
        /\ drawn[i].genes = drawn[j].genes
        /\ drawn[i].id # drawn[j].id
        /\ drawn[i].served = "hit"
        /\ drawn[j].served = "miss"
        /\ drawn[k].genes # drawn[i].genes
        /\ Len(drawn[j].segments) > 1

\* the gene vector of the drawBiomorph call that ran last
lastDrawnGenes ==
    IF drawing # Idle THEN drawing.biomorph.genes
    ELSE drawn[Len(drawn)].genes

\* C30: the parameter cache is bounded: after every drawBiomorph call it
\* holds at most 500 entries (200 on the reduced page); a call changes it
\* only by inserting the key of the drawn genes at the end, and when that
\* insertion takes the size over the capacity, exactly the 100 (50) oldest
\* entries are removed and all the others, the new one included, are kept
C30_CacheBounded ==
    [][drawingParamsCache' # drawingParamsCache =>
         LET size == Len(drawingParamsCache)
             inserted == drawingParamsCache'[Len(drawingParamsCache')]
         IN  /\ Len(drawingParamsCache') <= cacheCapacityOf(variant)
             /\ inserted.key = cacheKey(lastDrawnGenes')
             /\ \A i \in DOMAIN drawingParamsCache :
                    drawingParamsCache[i].key # inserted.key
             /\ IF size + 1 > cacheCapacityOf(variant)
                THEN drawingParamsCache' =
                         SubSeq(drawingParamsCache, trimmedOf(variant) + 1,
                                size) \o <<inserted>>
                ELSE drawingParamsCache' =
                         Append(drawingParamsCache, inserted)]_vars

\* a cache that was trimmed by the insertion of the gene vector drawn last
C30_Witness ==
    /\ Len(drawn) > 0
    /\ Len(drawingParamsCache) = cacheCapacityOf(variant) + 1 - trimmedOf(variant)
    /\ drawingParamsCache[Len(drawingParamsCache)].key = cacheKey(lastDrawnGenes)
    /\ drawn[Len(drawn)].served = "miss"

\* a step of auto-evolution ran past its guard: it drew ids for two batches
StepExecuted ==
    /\ lastOp' \in {"timer", "stepForward"}
    /\ nextId' # nextId

\* C23: after an executed step of auto-evolution with current individual s,
\* the new current individual is a member of createOffspring(s) of greatest
\* fitness in that batch, and the displayed batch is createOffspring of the
\* new current individual, every member having its id as parent
C23_StepPicksFittestAndBreeds ==
    [][StepExecuted =>
         /\ \E batch \in {StepBatch} :
                \E p \in DOMAIN batch :
                    /\ selectedBiomorph' = batch[p]
                    /\ \A q \in DOMAIN batch :
                           batch[q].fitness <= batch[p].fitness
         /\ biomorphs' = createOffspring(variant, selectedBiomorph',
                             fitnessFunction, nextId + BatchSize(variant))
         /\ \A k \in DOMAIN biomorphs' :
                biomorphs'[k].parent = selectedBiomorph'.id]_vars

\* the state after a second step in a row: the current individual is a child
\* of the first step's choice and its batch holds different fitness values
C23_Witness ==
    /\ lastOp = "timer"
    /\ selectedBiomorph.generation = 2
    /\ Len(biomorphs) = BatchSize(variant)
    /\ \A k \in DOMAIN biomorphs : biomorphs[k].parent = selectedBiomorph.id
    /\ \E k \in DOMAIN biomorphs : biomorphs[k].fitness # biomorphs[1].fitness

\* C24: every executed step of auto-evolution advances the generation
\* counter: the counter after the step is strictly greater than the counter
\* before it, also when the step follows a manual selection
C24_StepAdvancesCounter ==
    [][StepExecuted => generations' > generations]_vars

\* C25: while the controller is Running with a current individual exactly one
\* tick is pending (the re-entrancy guard never leaves it Running with no
\* timer); a timer firing while Running executes a step and leaves a new tick
\* scheduled; and, the pending timer being run by the event loop, a Running
\* controller that no user action can interrupt any more keeps executing
\* steps until the firings of the run are used up
C25_RunningKeepsStepping ==
    /\ [](autoEvolving /\ selectedBiomorph # Null => Cardinality(timers) = 1)
    /\ [][(lastOp' = "timer" /\ autoEvolving)
            => (StepExecuted /\ autoEvolving' /\ timers' # {})]_vars
    /\ (autoEvolving /\ selectedBiomorph # Null /\ budget.user = 0)
           ~> (autoEvolving /\ budget.timer = 0 /\ timers # {})

\* a Running controller that executed every step of the run and has the next
\* tick pending
C25_Witness ==
    /\ autoEvolving
    /\ lastOp = "timer"
    /\ budget.timer = 0
    /\ selectedBiomorph.generation >= MaxAutoSteps
    /\ Cardinality(timers) = 1

\* history holds an individual with the id of the current individual
CurrentInHistory ==
    \E k \in DOMAIN history : history[k].id = selectedBiomorph.id

\* C26 (as claimed): in every reachable state the current individual is an
\* element of history, by id, however it became current
C26_CurrentAlwaysInHistory == CurrentInHistory

\* the throttle of the step about to run: improvement by more than 0.5 over
\* the fitness recorded last or every fifth step (full page), improvement of
\* the chosen child by more than 0.5 over its parent (reduced page)
StepRecords ==
    IF variant = "reduced"
    THEN selectedBiomorph'.fitness > selectedBiomorph.fitness + 1
    ELSE \/ selectedBiomorph.fitness > prevFitnessRef + 1
         \/ autoEvolutionGeneration % 5 = 0

\* C26 (amended): the individual current after genesis is the last entry of
\* history; whenever another individual becomes current by a manual
\* selection, a reset, New Random or a gene-edit apply it is the last entry
\* of history afterwards; an executed step of auto-evolution appends the new
\* current individual as the last entry when its throttle records the step,
\* and otherwise leaves history as it is, without the new current individual
C26_CurrentRecordedUnlessThrottled ==
    /\ history[Len(history)].id = selectedBiomorph.id
    /\ [][selectedBiomorph'.id # selectedBiomorph.id =>
            IF StepExecuted /\ ~StepRecords
            THEN /\ history' = history
                 /\ ~CurrentInHistory'
            ELSE history'[Len(history')].id = selectedBiomorph'.id]_vars

\* a step the throttle did not record: the parent of the current individual
\* is the last entry of history, the current individual is not in it
C26_Witness ==
    /\ lastOp = "timer"
    /\ ~CurrentInHistory
    /\ history[Len(history)].id = selectedBiomorph.parent

\* every member of the displayed batch is a child of the current individual
BatchDerived ==
    \A k \in DOMAIN biomorphs :
        /\ biomorphs[k].parent = selectedBiomorph.id
        /\ biomorphs[k].generation = selectedBiomorph.generation + 1

\* C27 (as claimed): in every reachable state, from the initial state on,
\* every member of the batch has the id of the current individual as parent
\* and the generation of the current individual plus one
C27_BatchDerivedFromCurrent == BatchDerived

\* the grid of the full page after mount and reset: the random individual
\* alone, which is also the current one
RootAlone ==
    /\ Len(biomorphs) = 1
    /\ biomorphs[1].id = selectedBiomorph.id
    /\ selectedBiomorph.parent = NoParent
    /\ selectedBiomorph.generation = 0

\* the grid of the full page after "view history": the entries of history
HistoryView ==
    /\ viewingHistory
    /\ [k \in DOMAIN biomorphs |-> biomorphs[k].id]
           = [k \in DOMAIN history |-> history[k].id]

\* C27 (amended): on the reduced page every member of the batch is a child
\* of the current individual (its id as parent, its generation plus one) in
\* every reachable state; on the full page this holds whenever the grid was
\* filled by a selection, a gene-edit apply or an executed step, and
\* otherwise the grid holds the random individual alone (after mount and
\* reset) or the entries of history (after view history)
C27_BatchDerivedOrRootOrHistory ==
    /\ Len(biomorphs) > 0
    /\ variant = "reduced" => BatchDerived
    /\ variant = "full" => (BatchDerived \/ RootAlone \/ HistoryView)
    /\ lastOp \in {"select", "selectAncestor", "applyGenes", "newRandom"}
           => BatchDerived
    /\ lastOp = "viewHistory" => HistoryView
    /\ (lastOp = "reset" /\ variant = "full") => RootAlone

\* the full page showing a history of several entries in its grid
C27_Witness ==
    /\ variant = "full"
    /\ lastOp = "viewHistory"
    /\ Len(biomorphs) >= 2
    /\ ~BatchDerived

\* C28: a selection of b (from the grid or from the lineage carousel) makes b
\* the current individual, appends b to the end of history, replaces the whole
\* batch by fresh children of b (none of the previous batch remains), sets the
\* generation counter to b.generation + 1, and leaves the run state, the
\* fitness policy and the tick period as they were.
Selected == lastOp' \in {"select", "selectAncestor"} /\ nextId' # nextId

C28_SelectReplacesBatch ==
    [][Selected =>
         /\ selectedBiomorph' \in
               IF lastOp' = "select" THEN Range(biomorphs) ELSE Range(lineage)
         /\ history' = Append(history, selectedBiomorph')
         /\ biomorphs' =
               createOffspring(variant, selectedBiomorph', fitnessFunction, nextId)
         /\ Len(biomorphs') = BatchSize(variant)
         /\ \A i \in 1..Len(biomorphs') :
               /\ biomorphs'[i].parent = selectedBiomorph'.id
               /\ \A j \in 1..Len(biomorphs) : biomorphs'[i].id # biomorphs[j].id
         /\ generations' = selectedBiomorph'.generation + 1
         /\ autoEvolving' = autoEvolving
         /\ fitnessFunction' = fitnessFunction
         /\ evolutionSpeed' = evolutionSpeed]_vars

\* an ancestor was selected while the page was running: the counter went back
C28_Witness ==
    /\ lastOp = "selectAncestor"
    /\ autoEvolving
    /\ selectedBiomorph # Null
    /\ Len(history) >= 3
    /\ history[Len(history)] = selectedBiomorph
    /\ generations = selectedBiomorph.generation + 1
    /\ generations < history[Len(history) - 1].generation + 1

C31_TrunkStrokedFirst ==
    \A i \in DOMAIN drawn :
        /\ drawn[i].segments[1].depth = drawn[i].params.depth
        /\ drawn[i].segments[1].x1y1 = <<>>
        /\ \A j, k \in DOMAIN drawn[i].segments :
               j < k => drawn[i].segments[j].depth >= drawn[i].segments[k].depth

\* the segments of a tree of the greatest mapped depth and split count
MostSegments == 1 + 4 + 16 + 64 + 256 + 1024 + 4096 + 16384

RECURSIVE segmentsOf(_, _)
segmentsOf(s, d) == IF d <= 0 THEN 0 ELSE 1 + s * segmentsOf(s, d - 1)

\* the recursive walk of every mapped depth and split count, on the mapped
\* parameters of the gene vector <<0, 0, 0, 0, 0, 0, 0, 0, 0>> otherwise
RecursiveWalkCounts ==
    \A d \in 1..8, s \in 2..4 :
        LET params == [drawingParams(<<0, 0, 0, 0, 0, 0, 0, 0, 0>>)
                           EXCEPT !.depth = d, !.splits = s]
            strokes == drawRecursive("full", params)
        IN  /\ Len(strokes) = segmentsOf(s, d)
            /\ \A k \in DOMAIN strokes : strokes[k].depth >= 1

\* the mapped depth and split count of every gene value in [-10, 10]
MappedInRange ==
    \A g3 \in -10..10, g8 \in -10..10 :
        LET params == drawingParams(<<0, 0, 0, g3, 0, 0, 0, 0, g8>>)
        IN  params.depth \in 1..8 /\ params.splits \in 2..4

\* C33: for every genotype with genes in [-10, 10] the mapped depth d is an
\* integer in 1..8 and the mapped split count s an integer in 2..4; the queue
\* walk ends, and it and the recursive walk each stroke exactly
\* 1 + s + ... + s^(d-1) segments, none of them at remaining depth 0
C33_WalksEndWithGeometricCount ==
    /\ [](/\ MappedInRange
          /\ RecursiveWalkCounts
          /\ \A k \in DOMAIN drawing.branches : drawing.branches[k].depth >= 1
          /\ \A i \in DOMAIN drawn :
                 /\ drawn[i].params.depth \in 1..8
                 /\ drawn[i].params.splits \in 2..4
                 /\ Len(drawn[i].segments) =
                        segmentsOf(drawn[i].params.splits, drawn[i].params.depth)
                 /\ Len(drawRecursive(variant, drawn[i].params)) =
                        Len(drawn[i].segments)
                 /\ \A k \in DOMAIN drawn[i].segments :
                        drawn[i].segments[k].depth >= 1)
    /\ <>(drawing = Idle /\ Len(drawn) = 1)

\* a finished queue walk of depth 4 with four children per split
C33_Witness ==
    \E i \in DOMAIN drawn :
        /\ drawn[i].params.depth = 4
        /\ drawn[i].params.splits = 4
        /\ Len(drawn[i].segments) = 85
        /\ drawing = Idle

\* C34: in every reachable state a retained genotype (current, displayed, in
\* history or in the stored lineage) has generation 0 exactly if it has no
\* parent; the individual the gene editor would create is of that kind too,
\* with a current individual and without one
C34_RootsHaveNoParent ==
    /\ \A b \in Retained :
           b.generation = 0 <=> b.parent = NoParent
    /\ \A selected \in {selectedBiomorph, Null} :
           LET edited == createCustomBiomorph(geneEditValues, selected,
                                              fitnessFunction, nextId)
           IN  edited.generation = 0 <=> edited.parent = NoParent

\* the gene editor was applied to a root: the edited individual is its child
C34_Witness ==
    /\ lastOp = "applyGenes"
    /\ selectedBiomorph.generation = 1
    /\ selectedBiomorph.parent # NoParent
    /\ \E k \in DOMAIN history :
           /\ history[k].id = selectedBiomorph.parent
           /\ history[k].generation = 0
           /\ history[k].parent = NoParent

\* the stored lineage ends with the current individual
LineageEndsAtCurrent ==
    /\ Len(lineage) > 0
    /\ lineage[Len(lineage)].id = selectedBiomorph.id

IdsOf(hist) == {hist[k].id : k \in DOMAIN hist}

\* C36 (as claimed): history never holds two entries with the same id
C36_HistoryIdsDistinct ==
    \A j, k \in DOMAIN history : j # k => history[j].id # history[k].id

\* C36 (amended): a selection appends the selected individual also when
\* history already holds it (the initial individual shown in the grid, an
\* entry of the history view, an ancestor of the lineage view), so history
\* may hold an id more than once; entries with equal ids agree in genes,
\* generation and parent; every other handler that changes history ends it
\* with an individual whose id history did not hold; and the reduced page,
\* whose grid shows new children only, never holds an id twice
C36_HistoryRepeatsOnlyReselected ==
    /\ [](\A j, k \in DOMAIN history :
              history[j].id = history[k].id =>
                  /\ history[j].genes = history[k].genes
                  /\ history[j].generation = history[k].generation
                  /\ history[j].parent = history[k].parent)
    /\ [](variant = "reduced" => C36_HistoryIdsDistinct)
    /\ [][Selected => history' = Append(history, selectedBiomorph')]_vars
    /\ [][(history' # history /\ ~Selected) =>
              history'[Len(history')].id \notin IdsOf(history)]_vars

\* the initial individual was selected from the grid: history holds it twice
C36_Witness ==
    /\ lastOp = "select"
    /\ Len(history) = 2
    /\ history[1].id = history[2].id
    /\ history[1].generation = 0

\* the genes of the greatest balanced fitness: |depth| = 10, |length| = 10,
\* asymmetry 0, |splits| = 10
BalancedBest ==
    /\ Abs(Gene(selectedBiomorph.genes, 3)) = 10
    /\ Abs(Gene(selectedBiomorph.genes, 1)) = 10
    /\ Gene(selectedBiomorph.genes, 5) = 0
    /\ Abs(Gene(selectedBiomorph.genes, 8)) = 10

\* C37: on the full page under the balanced policy an auto-evolution that is
\* started and not interrupted reaches a current individual of the greatest
\* balanced fitness, 30 (60 half units), which is the fitness of exactly the
\* genes with |depth| = 10, |length| = 10, asymmetry 0 and |splits| = 10;
\* every later step leaves the fitness of the current individual at 30
C37_ClimbReachesMaximum ==
    /\ [](balancedFitness <= 60 /\ (balancedFitness = 60 <=> BalancedBest))
    /\ (autoEvolving /\ fitnessFunction = "balanced") ~> (balancedFitness = 60)
    /\ [][(balancedFitness = 60 /\ StepExecuted) => balancedFitness' = 60]_vars

\* a climb of forty steps from the least fit start has arrived
C37_Witness ==
    /\ lastOp = "timer"
    /\ autoEvolving
    /\ balancedFitness = 60
    /\ selectedBiomorph.generation = 40
    /\ history[1].fitness = 20

\* the step appended the individual it chose to history
StepAppends ==
    /\ history' # history
    /\ history'[Len(history')].id = selectedBiomorph'.id

C39_ResetYieldsIdleRoot ==
    /\ [][lastOp' = "reset" =>
            /\ selectedBiomorph'.generation = 0
            /\ selectedBiomorph'.parent = NoParent
            /\ Len(selectedBiomorph'.genes) = 9
            /\ \A k \in 1..9 : selectedBiomorph'.genes[k] \in -10..10
            /\ \A b \in Retained : b.id # selectedBiomorph'.id
            /\ history' = <<selectedBiomorph'>>
            /\ generations' = 0
            /\ ~autoEvolving'
            /\ timers' = {}]_vars
    /\ [][StepExecuted => autoEvolving]_vars
    /\ [](~autoEvolving => timers = {})

\* a reset of a running page that had executed a step
C39_Witness ==
    /\ lastOp = "reset"
    /\ budget.user = MaxUserOps - 2
    /\ budget.timer < MaxAutoSteps
    /\ selectedBiomorph.id > 1 + BatchSize(variant)
    /\ history = <<selectedBiomorph>>
    /\ ~autoEvolving
    /\ timers = {}

====
